---- MODULE Spec2Model ----
(***************************************************************************)
(* A model of earthdata-varinfo: the CFConfig rule store and its override  *)
(* resolution (varinfo/cf_config.py), the attribute handling of groups and *)
(* variables (varinfo/attribute_container.py, varinfo/variable.py) and the *)
(* closure and classification queries of VarInfoBase                       *)
(* (varinfo/var_info.py).                                                  *)
(*                                                                         *)
(* Python strings are sequences of one-character strings, so that regular  *)
(* expression matching, splitting and path qualification are computed      *)
(* character by character as the code computes them.  A Python dict is a   *)
(* function whose DOMAIN is its key set; where the code depends on the     *)
(* insertion order of a dict (CFConfig._cf_overrides) the dict is a        *)
(* sequence of [pattern, attributes] entries in insertion order.           *)
(***************************************************************************)
EXTENDS Integers, Sequences, FiniteSets, TLC

(***************************************************************************)
(* Bounds of the model.                                                    *)
(***************************************************************************)
\* Longest CF_Overrides list of a rule document.
MaxRules == 3
\* Most variables in one granule.
MaxVars == 3
\* Largest set handed to get_required_variables.
MaxRequested == 2

(***************************************************************************)
(* Strings                                                                 *)
(***************************************************************************)
Digits == {"0", "1", "2", "3", "4", "5", "6", "7", "8", "9"}

Whitespace == {" "}

\* str.startswith
StartsWith(s, prefix) ==
    /\ Len(prefix) <= Len(s)
    /\ SubSeq(s, 1, Len(prefix)) = prefix

\* str.endswith
EndsWith(s, suffix) ==
    /\ Len(suffix) <= Len(s)
    /\ SubSeq(s, Len(s) - Len(suffix) + 1, Len(s)) = suffix

\* s[n:]
DropFirst(s, n) == SubSeq(s, n + 1, Len(s))

\* str.count of a single character
CountChar(s, c) == Cardinality({i \in 1..Len(s) : s[i] = c})

\* str.rstrip(':') : every trailing ':' is removed
RECURSIVE RStripColon(_)
RStripColon(s) ==
    IF Len(s) > 0 /\ s[Len(s)] = ":"
    THEN RStripColon(SubSeq(s, 1, Len(s) - 1))
    ELSE s

\* str.split('/')
RECURSIVE SplitSlash(_)
SplitSlash(s) ==
    IF \A i \in 1..Len(s) : s[i] # "/"
    THEN <<s>>
    ELSE LET i == CHOOSE k \in 1..Len(s) :
                      /\ s[k] = "/"
                      /\ \A j \in 1..(k - 1) : s[j] # "/"
         IN  <<SubSeq(s, 1, i - 1)>> \o SplitSlash(DropFirst(s, i))

\* '/'.join(pieces)
RECURSIVE JoinSlash(_)
JoinSlash(pieces) ==
    IF Len(pieces) = 0 THEN <<>>
    ELSE IF Len(pieces) = 1 THEN pieces[1]
    ELSE pieces[1] \o <<"/">> \o JoinSlash(Tail(pieces))

\* Length of the run of whitespace characters of s starting at position i.
RECURSIVE WhitespaceRun(_, _)
WhitespaceRun(s, i) ==
    IF i <= Len(s) /\ s[i] \in Whitespace THEN 1 + WhitespaceRun(s, i + 1) ELSE 0

\* re.split(r'\s+|,\s*', s): the separators are a run of whitespace, or a
\* comma with the whitespace that follows it; empty pieces are kept.
RECURSIVE ReSplitFrom(_, _, _)
ReSplitFrom(s, i, current) ==
    IF i > Len(s) THEN <<current>>
    ELSE IF s[i] \in Whitespace
         THEN <<current>> \o ReSplitFrom(s, i + WhitespaceRun(s, i), <<>>)
    ELSE IF s[i] = ","
         THEN <<current>> \o ReSplitFrom(s, i + 1 + WhitespaceRun(s, i + 1), <<>>)
    ELSE ReSplitFrom(s, i + 1, Append(current, s[i]))

ReSplit(s) == ReSplitFrom(s, 1, <<>>)

(***************************************************************************)
(* Regular expressions.  A pattern is a sequence of tokens: a literal      *)
(* character, "." (any character), "\\d" (a digit), each optionally        *)
(* followed by the quantifier "*" or "+".                                  *)
(***************************************************************************)
AtomMatches(atom, c) ==
    \/ atom = "."
    \/ atom = "\\d" /\ c \in Digits
    \/ atom \notin {".", "\\d"} /\ atom = c

\* Whether pattern[i..] matches a prefix of s[j..].
RECURSIVE MatchFrom(_, _, _, _)
MatchFrom(pattern, i, s, j) ==
    IF i > Len(pattern) THEN TRUE
    ELSE IF i < Len(pattern) /\ pattern[i + 1] = "*"
         THEN \/ MatchFrom(pattern, i + 2, s, j)
              \/ /\ j <= Len(s)
                 /\ AtomMatches(pattern[i], s[j])
                 /\ MatchFrom(pattern, i, s, j + 1)
    ELSE IF i < Len(pattern) /\ pattern[i + 1] = "+"
         THEN /\ j <= Len(s)
              /\ AtomMatches(pattern[i], s[j])
              /\ \/ MatchFrom(pattern, i + 2, s, j + 1)
                 \/ MatchFrom(pattern, i, s, j + 1)
    ELSE /\ j <= Len(s)
         /\ AtomMatches(pattern[i], s[j])
         /\ MatchFrom(pattern, i + 1, s, j + 1)

\* re.match(pattern, s) is not None: the pattern matches at the start of s,
\* not necessarily all of it.
ReMatch(pattern, s) == MatchFrom(pattern, 1, s, 1)

\* re.compile('|'.join(patterns)).match(s) is not None, for a non-empty set
\* of patterns: one of the alternatives matches at the start of s.
ReMatchAny(patterns, s) == \E pattern \in patterns : ReMatch(pattern, s)

(***************************************************************************)
(* Dicts                                                                   *)
(***************************************************************************)
EmptyDict == [k \in {} |-> <<>>]

\* dict.get(key, default)
Get(dict, key, default) == IF key \in DOMAIN dict THEN dict[key] ELSE default

\* dict.update(other), as a new dict
Update(dict, other) ==
    [k \in DOMAIN dict \cup DOMAIN other |->
        IF k \in DOMAIN other THEN other[k] ELSE dict[k]]

\* An assignment that merges the new attributes into the ones an existing
\* key has.
SetItemMergesAttributes(results, pattern, attributes) ==
    IF \E i \in 1..Len(results) : results[i].pattern = pattern
    THEN [i \in 1..Len(results) |->
            IF results[i].pattern = pattern
            THEN [pattern |-> pattern,
                  attributes |->
                      [k \in DOMAIN results[i].attributes
                                 \cup DOMAIN attributes |->
                          IF k \in DOMAIN attributes THEN attributes[k]
                          ELSE results[i].attributes[k]]]
            ELSE results[i]]
    ELSE Append(results, [pattern |-> pattern, attributes |-> attributes])

\* results[pattern] = attributes, on a dict kept in insertion order: an
\* existing key keeps its position and gets the new value.
SetItem(results, pattern, attributes) ==
    IF \E i \in 1..Len(results) : results[i].pattern = pattern
    THEN [i \in 1..Len(results) |->
            IF results[i].pattern = pattern
            THEN [pattern |-> pattern, attributes |-> attributes]
            ELSE results[i]]
    ELSE Append(results, [pattern |-> pattern, attributes |-> attributes])

(***************************************************************************)
(* Python's None, and "x or y" on optional strings.                        *)
(***************************************************************************)
None == <<"<None>">>

Or(x, y) == IF x = None \/ x = <<>> THEN y ELSE x

(***************************************************************************)
(* The strings of the model.                                               *)
(***************************************************************************)
\* Variable patterns of override rules.
P_all == <<".", "*">>                   \* '.*'
P_g_all == <<"/", "g", "/", ".", "*">>  \* '/g/.*'
P_g_v == <<"/", "g", "/", "v">>         \* '/g/v'

\* Paths of groups and variables.
Root == <<"/">>
G == <<"/", "g">>
G_v == <<"/", "g", "/", "v">>
G_w == <<"/", "g", "/", "w">>
H == <<"/", "h">>

\* Mission and short name of the instance, and the mission patterns of rules.
FS == <<"F", "S">>
F9 == <<"F", "9">>
M_F == <<"F">>
M_X == <<"X">>

\* Attribute values.
X == <<"x">>
Y == <<"y">>
R == <<"r">>
S == <<"s">>

\* Configuration file names; FileSystem holds the ones that exist.
F_cfg == <<"c", ".", "j", "s", "o", "n">>
F_missing == <<"m", ".", "j", "s", "o", "n">>
F_dmr == <<"a", ".", "d", "m", "r">>
JsonSuffix == <<".", "j", "s", "o", "n">>
FileSystem == {F_cfg, F_dmr}

(***************************************************************************)
(* State                                                                   *)
(***************************************************************************)
VARIABLES
    \* CFConfig
    mission,                    \* CFConfig.mission
    short_name,                 \* CFConfig.short_name
    config_file,                \* CFConfig.config_file
    config,                     \* the JSON document stored in config_file
    cf_overrides,               \* CFConfig._cf_overrides, in insertion order
    cf_supplements,             \* CFConfig._cf_supplements, in insertion order
    excluded_science_variables, \* CFConfig.excluded_science_variables
    required_variables,         \* CFConfig.required_variables
    global_supplements,         \* CFConfig.global_supplements
    global_overrides,           \* CFConfig.global_overrides
    cf_state,                   \* "new", "ready", or the exception __init__ raised
    \* VarInfoBase
    dataset,                    \* the variables of the granule, as read
    variables,                  \* VarInfoBase.variables: path -> Variable
    references,                 \* VarInfoBase.references
    \* the call in progress or last made
    op,                         \* name of the operation
    arg,                        \* its argument
    ret,                        \* its return value
    \* get_required_variables
    requested_variables,        \* the caller's set, which the method works on
    required,                   \* the local set required_variables
    popped,                     \* how often each path was popped
    pc                          \* "idle", "loop", "done"

cfVars == <<mission, short_name, config_file, config, cf_overrides,
            cf_supplements, excluded_science_variables, required_variables,
            global_supplements, global_overrides, cf_state>>

graphVars == <<dataset, variables, references>>

callVars == <<op, arg, ret>>

loopVars == <<requested_variables, required, popped, pc>>

vars == <<cfVars, graphVars, callVars, loopVars>>

(***************************************************************************)
(* CFConfig                                                                *)
(***************************************************************************)
Range(seq) == {seq[i] : i \in 1..Len(seq)}

\* An applicability test that looks at the mission alone.
IsApplicableByMissionOnly(rule_mission, rule_short_name, self_mission, self_short_name) ==
    ReMatch(rule_mission, self_mission)

\* CFConfig._is_applicable
IsApplicable(rule_mission, rule_short_name, self_mission, self_short_name) ==
    LET mission_matches == ReMatch(rule_mission, self_mission)
        short_name_matches ==
            \/ rule_short_name = None
            \/ ReMatch(rule_short_name, self_short_name)
    IN  mission_matches /\ short_name_matches

\* CFConfig._create_attributes_object: a dict from a list of Name/Value items
RECURSIVE CreateAttributesFrom(_, _)
CreateAttributesFrom(attributes, dict) ==
    IF Len(attributes) = 0 THEN dict
    ELSE CreateAttributesFrom(
             Tail(attributes),
             Update(dict, [k \in {attributes[1].Name} |-> attributes[1].Value]))

CreateAttributesObject(cf_item) ==
    CreateAttributesFrom(Get(cf_item, "Attributes", <<>>), EmptyDict)

\* CFConfig._process_cf_item, and its loop over the nested references.
RECURSIVE ProcessCfItem(_, _, _, _, _, _)
RECURSIVE ProcessCfItems(_, _, _, _, _, _)
\* A processing that goes through the nested references of an item that is
\* not applicable, too.
ProcessCfItemDescendsAlways(cf_item, results, input_mission, input_short_name, self_mission, self_short_name) ==
    LET item_mission ==
            Or(Get(cf_item.Applicability, "Mission", None), input_mission)
        item_short_name ==
            Or(Get(cf_item.Applicability, "ShortNamePath", None),
               input_short_name)
        pattern == Get(cf_item.Applicability, "Variable_Pattern", P_all)
        assigned ==
            IF /\ item_mission # None
               /\ IsApplicable(item_mission, item_short_name,
                               self_mission, self_short_name)
               /\ "Attributes" \in DOMAIN cf_item
            THEN SetItem(results, pattern, CreateAttributesObject(cf_item))
            ELSE results
    IN  ProcessCfItems(Get(cf_item, "Applicability_Group", <<>>),
                       assigned, item_mission, item_short_name,
                       self_mission, self_short_name)

ProcessCfItem(cf_item, results, input_mission, input_short_name, self_mission, self_short_name) ==
    LET item_mission ==
            Or(Get(cf_item.Applicability, "Mission", None), input_mission)
        item_short_name ==
            Or(Get(cf_item.Applicability, "ShortNamePath", None),
               input_short_name)
    IN  IF /\ item_mission # None
           /\ IsApplicable(item_mission, item_short_name,
                           self_mission, self_short_name)
        THEN LET pattern ==
                     Get(cf_item.Applicability, "Variable_Pattern", P_all)
                 assigned ==
                     IF "Attributes" \in DOMAIN cf_item
                     THEN SetItem(results, pattern,
                                  CreateAttributesObject(cf_item))
                     ELSE results
             IN  ProcessCfItems(Get(cf_item, "Applicability_Group", <<>>),
                                assigned, item_mission, item_short_name,
                                self_mission, self_short_name)
        ELSE results

ProcessCfItems(cf_items, results, input_mission, input_short_name, self_mission, self_short_name) ==
    IF Len(cf_items) = 0 THEN results
    ELSE ProcessCfItems(
             Tail(cf_items),
             ProcessCfItem(cf_items[1], results, input_mission,
                           input_short_name, self_mission, self_short_name),
             input_mission, input_short_name, self_mission, self_short_name)

\* The pattern sets of _read_config_file (Excluded_Science_Variables and
\* Required_Fields): the patterns of every applicable item.
ApplicablePatterns(items, self_mission, self_short_name) ==
    UNION {Range(item.Variable_Pattern) :
           item \in {i \in Range(items) :
                        IsApplicable(Get(i.Applicability, "Mission", None),
                                     Get(i.Applicability, "ShortNamePath", None),
                                     self_mission, self_short_name)}}

\* The global attribute dicts of _read_config_file: the Global_Attributes of
\* every applicable item, later items overwriting earlier ones.
RECURSIVE GlobalAttributes(_, _, _, _)
GlobalAttributes(items, dict, self_mission, self_short_name) ==
    IF Len(items) = 0 THEN dict
    ELSE GlobalAttributes(
             Tail(items),
             IF IsApplicable(Get(items[1].Applicability, "Mission", None),
                             Get(items[1].Applicability, "ShortNamePath", None),
                             self_mission, self_short_name)
             THEN CreateAttributesFrom(
                      Get(items[1], "Global_Attributes", <<>>), dict)
             ELSE dict,
             self_mission, self_short_name)

\* A merge of the attributes of every entry, whatever its pattern.
RECURSIVE GetMatchingAttributesFromEveryEntry(_, _, _)
GetMatchingAttributesFromEveryEntry(cf_references, variable, matched) ==
    IF Len(cf_references) = 0 THEN matched
    ELSE GetMatchingAttributesFromEveryEntry(
             Tail(cf_references), variable,
             Update(matched, cf_references[1].attributes))

\* CFConfig._get_matching_attributes: the attributes of every entry whose
\* pattern matches, merged in the dict's iteration (insertion) order.
RECURSIVE GetMatchingAttributesFrom(_, _, _)
GetMatchingAttributesFrom(cf_references, variable, matched) ==
    IF Len(cf_references) = 0 THEN matched
    ELSE GetMatchingAttributesFrom(
             Tail(cf_references), variable,
             IF ReMatch(cf_references[1].pattern, variable)
             THEN Update(matched, cf_references[1].attributes)
             ELSE matched)

GetMatchingAttributes(cf_references, variable) ==
    GetMatchingAttributesFrom(cf_references, variable, EmptyDict)

\* CFConfig.get_cf_attributes
GetCfAttributes(variable) ==
    IF variable # None
    THEN [cf_overrides |-> GetMatchingAttributes(cf_overrides, variable),
          cf_supplements |-> GetMatchingAttributes(cf_supplements, variable)]
    ELSE [cf_overrides |-> cf_overrides, cf_supplements |-> cf_supplements]

\* The specificity of a variable pattern: its number of '/', then its length.
LessSpecific(p, q) ==
    \/ CountChar(p, "/") < CountChar(q, "/")
    \/ CountChar(p, "/") = CountChar(q, "/") /\ Len(p) < Len(q)

\* Insert an entry into a list sorted by ascending specificity, after the
\* entries that are not more specific than it (a stable sort).
RECURSIVE InsertBySpecificity(_, _)
InsertBySpecificity(sorted, entry) ==
    IF Len(sorted) = 0 THEN <<entry>>
    ELSE IF LessSpecific(entry.pattern, sorted[1].pattern)
         THEN <<entry>> \o sorted
    ELSE <<sorted[1]>> \o InsertBySpecificity(Tail(sorted), entry)

RECURSIVE SortBySpecificity(_, _)
SortBySpecificity(entries, sorted) ==
    IF Len(entries) = 0 THEN sorted
    ELSE SortBySpecificity(Tail(entries),
                           InsertBySpecificity(sorted, entries[1]))

\* CFConfig.get_metadata_overrides, which attribute_container.py and
\* var_info.py call: the attributes of the matching override rules, merged
\* in ascending specificity.
GetMetadataOverrides(path) ==
    GetMatchingAttributes(SortBySpecificity(cf_overrides, <<>>), path)

(***************************************************************************)
(* AttributeContainerBase (the attributes of a group)                      *)
(***************************************************************************)
\* A container that keeps the raw value of every attribute it reads.
ContainerGetConfiguredAttributeKeepsRaw(metadata_overrides, attribute_name, raw_attribute_value) ==
    raw_attribute_value

\* AttributeContainerBase._get_configured_attribute
ContainerGetConfiguredAttribute(metadata_overrides, attribute_name, raw_attribute_value) ==
    Get(metadata_overrides, attribute_name, raw_attribute_value)

\* AttributeContainerFromDmr._get_attributes, AttributeContainerFromNetCDF4.
\* _get_attributes: every attribute of the container, configured.
ContainerGetAttributes(raw_attributes, metadata_overrides) ==
    [name \in DOMAIN raw_attributes |->
        ContainerGetConfiguredAttribute(metadata_overrides, name,
                                        raw_attributes[name])]

\* _add_missing_attributes, of AttributeContainerBase and of VariableBase:
\* the extra attributes whose names are not yet present are added.
AddMissingAttributes(attributes, extra_attributes) ==
    [name \in DOMAIN attributes \cup DOMAIN extra_attributes |->
        IF name \in DOMAIN attributes
        THEN attributes[name]
        ELSE extra_attributes[name]]

\* str.rstrip('/')
RECURSIVE RStripSlash(_)
RStripSlash(s) ==
    IF Len(s) > 0 /\ s[Len(s)] = "/"
    THEN RStripSlash(SubSeq(s, 1, Len(s) - 1))
    ELSE s

\* GroupFromDmr._parse_variables, GroupFromNetCDF4._parse_variables
ParseVariables(full_name_path, children) ==
    {JoinSlash(<<RStripSlash(full_name_path), child>>) : child \in children}

\* GroupBase.__init__ (AttributeContainerBase.__init__, then the children)
GroupInit(group, full_name_path) ==
    LET metadata_overrides == GetMetadataOverrides(full_name_path)
        attributes == ContainerGetAttributes(group.attributes,
                                             metadata_overrides)
    IN  [full_name_path |-> full_name_path,
         metadata_overrides |-> metadata_overrides,
         attributes |-> AddMissingAttributes(attributes, metadata_overrides),
         variables |-> ParseVariables(full_name_path, group.variables)]

(***************************************************************************)
(* VariableBase                                                            *)
(***************************************************************************)
\* varinfo.utilities.CF_REFERENCE_ATTRIBUTES
CF_REFERENCE_ATTRIBUTES ==
    {"ancillary_variables", "bounds", "cell_measures", "coordinates",
     "geometry", "grid_mapping", "interior_ring", "node_coordinates",
     "node_count", "nodes", "part_node_count", "subset_control_variables"}

\* What list.pop() on an empty list raises.
IndexError == <<"<IndexError>">>

\* VariableBase._extract_group_and_name
ExtractGroupAndName(full_name_path) ==
    LET split_full_path == SplitSlash(full_name_path)
        n == Len(split_full_path)
    IN  [group_path |-> Or(JoinSlash(SubSeq(split_full_path, 1, n - 1)), None),
         name |-> split_full_path[n]]

\* The loop of VariableBase._construct_absolute_path: one piece of the group
\* path is popped for every leading '../' of the reference.
RECURSIVE PopRelativePrefixes(_, _)
PopRelativePrefixes(reference, group_path_pieces) ==
    IF StartsWith(reference, <<".", ".", "/">>)
    THEN IF Len(group_path_pieces) = 0
         THEN IndexError
         ELSE PopRelativePrefixes(
                  DropFirst(reference, 3),
                  SubSeq(group_path_pieces, 1, Len(group_path_pieces) - 1))
    ELSE JoinSlash(group_path_pieces \o <<reference>>)

\* VariableBase._construct_absolute_path
ConstructAbsolutePath(group_path, reference) ==
    PopRelativePrefixes(reference, SplitSlash(group_path))

\* A qualification that keeps the trailing ':' of the reference.
QualifyReferenceWithoutStrip(group_path, raw_reference) ==
    IF group_path # None
    THEN IF StartsWith(raw_reference, <<".", ".", "/">>)
         THEN ConstructAbsolutePath(group_path, raw_reference)
         ELSE IF StartsWith(raw_reference, <<"/">>)
         THEN raw_reference
         ELSE IF StartsWith(raw_reference, <<".", "/">>)
         THEN group_path \o DropFirst(raw_reference, 1)
         ELSE JoinSlash(<<group_path, raw_reference>>)
    ELSE IF StartsWith(raw_reference, <<"/">>)
         THEN raw_reference
         ELSE <<"/">> \o raw_reference

\* The body of the loops of VariableBase._qualify_references
QualifyReference(group_path, raw_reference) ==
    LET reference == RStripColon(raw_reference)
    IN  IF group_path # None
        THEN IF StartsWith(reference, <<".", ".", "/">>)
             THEN ConstructAbsolutePath(group_path, reference)
             ELSE IF StartsWith(reference, <<"/">>)
             THEN reference
             ELSE IF StartsWith(reference, <<".", "/">>)
             THEN group_path \o DropFirst(reference, 1)
             ELSE JoinSlash(<<group_path, reference>>)
        ELSE IF StartsWith(reference, <<"/">>)
             THEN reference
             ELSE <<"/">> \o reference

\* VariableBase._qualify_references
QualifyReferences(group_path, raw_references) ==
    [i \in 1..Len(raw_references) |->
        QualifyReference(group_path, raw_references[i])]

\* VariableBase._extract_references
ExtractReferences(group_path, attribute_string) ==
    IF attribute_string # None
    THEN Range(QualifyReferences(group_path, ReSplit(attribute_string)))
    ELSE {}

\* A variable that reads its attributes without the overrides: the raw value,
\* with the supplement appended.
VariableGetConfiguredAttributeWithoutOverride(cf_config, attribute_name, raw_attribute_value) ==
    LET supplement == Get(cf_config.cf_supplements, attribute_name, None)
    IN  IF supplement # None /\ raw_attribute_value # None
        THEN raw_attribute_value \o <<",", " ">> \o supplement
        ELSE IF supplement # None
        THEN supplement
        ELSE raw_attribute_value

\* VariableBase._get_configured_attribute
VariableGetConfiguredAttribute(cf_config, attribute_name, raw_attribute_value) ==
    LET override == Get(cf_config.cf_overrides, attribute_name, None)
        supplement == Get(cf_config.cf_supplements, attribute_name, None)
        attribute_value ==
            IF override # None THEN override ELSE raw_attribute_value
    IN  IF supplement # None /\ attribute_value # None
        THEN attribute_value \o <<",", " ">> \o supplement
        ELSE IF supplement # None
        THEN supplement
        ELSE attribute_value

\* VariableFromDmr._get_attributes, VariableFromNetCDF4._get_attributes
VariableGetAttributes(raw_attributes, cf_config) ==
    [name \in DOMAIN raw_attributes |->
        VariableGetConfiguredAttribute(cf_config, name, raw_attributes[name])]

\* VariableBase._get_additional_attributes
GetAdditionalAttributes(attributes, cf_config) ==
    AddMissingAttributes(
        AddMissingAttributes(attributes, cf_config.cf_overrides),
        cf_config.cf_supplements)

\* VariableBase._get_all_cf_references (with _get_cf_references)
GetAllCfReferences(group_path, attributes) ==
    [attribute_name \in CF_REFERENCE_ATTRIBUTES \cap DOMAIN attributes |->
        ExtractReferences(group_path, attributes[attribute_name])]

\* VariableBase._extract_dimensions
ExtractDimensions(group_path, raw_dimensions, cf_config) ==
    LET overrides == Get(cf_config.cf_overrides, "dimensions", None)
        supplements == Get(cf_config.cf_supplements, "dimensions", None)
        dimensions ==
            IF overrides # None THEN ReSplit(overrides) ELSE raw_dimensions
    IN  QualifyReferences(
            group_path,
            IF supplements # None
            THEN dimensions \o ReSplit(supplements)
            ELSE dimensions)

\* VariableBase.__init__
VariableInit(variable, full_name_path) ==
    LET cf_config == GetCfAttributes(full_name_path)
        group_and_name == ExtractGroupAndName(full_name_path)
        group_path == group_and_name.group_path
        attributes ==
            GetAdditionalAttributes(
                VariableGetAttributes(variable.attributes, cf_config),
                cf_config)
    IN  [full_name_path |-> full_name_path,
         cf_config |-> cf_config,
         group_path |-> group_path,
         name |-> group_and_name.name,
         attributes |-> attributes,
         references |-> GetAllCfReferences(group_path, attributes),
         dimensions |->
             ExtractDimensions(group_path, variable.dimensions, cf_config)]

\* Whether VariableBase.__init__ raises: a reference or dimension has more
\* leading '../' than the group path has pieces.
VariableInitRaises(variable, full_name_path) ==
    LET built == VariableInit(variable, full_name_path)
    IN  \/ IndexError \in Range(built.dimensions)
        \/ \E name \in DOMAIN built.references :
               IndexError \in built.references[name]

\* VariableBase.get_references
GetReferences(variable) ==
    Range(variable.dimensions)
        \cup UNION {variable.references[name] :
                    name \in DOMAIN variable.references}

\* VariableBase.is_latitude
IsLatitude(variable) ==
    Get(variable.attributes, "units", None) \in
        {<<"d", "e", "g", "r", "e", "e", "s", "_", "n", "o", "r", "t", "h">>,
         <<"d", "e", "g", "r", "e", "e", "_", "n", "o", "r", "t", "h">>,
         <<"d", "e", "g", "r", "e", "e", "s", "_", "N">>,
         <<"d", "e", "g", "r", "e", "e", "_", "N">>,
         <<"d", "e", "g", "r", "e", "e", "s", "N">>,
         <<"d", "e", "g", "r", "e", "e", "N">>}

\* VariableBase.is_longitude
IsLongitude(variable) ==
    Get(variable.attributes, "units", None) \in
        {<<"d", "e", "g", "r", "e", "e", "s", "_", "e", "a", "s", "t">>,
         <<"d", "e", "g", "r", "e", "e", "_", "e", "a", "s", "t">>,
         <<"d", "e", "g", "r", "e", "e", "s", "_", "E">>,
         <<"d", "e", "g", "r", "e", "e", "_", "E">>,
         <<"d", "e", "g", "r", "e", "e", "s", "E">>,
         <<"d", "e", "g", "r", "e", "e", "E">>}

\* VariableBase.is_geographic
IsGeographic(variable) == IsLongitude(variable) \/ IsLatitude(variable)

\* VariableBase.is_projection_x_or_y
IsProjectionXOrY(variable) ==
    Get(variable.attributes, "standard_name", None) \in
        {<<"p", "r", "o", "j", "e", "c", "t", "i", "o", "n", "_", "x", "_",
           "c", "o", "o", "r", "d", "i", "n", "a", "t", "e">>,
         <<"p", "r", "o", "j", "e", "c", "t", "i", "o", "n", "_", "x", "_",
           "a", "n", "g", "u", "l", "a", "r", "_",
           "c", "o", "o", "r", "d", "i", "n", "a", "t", "e">>,
         <<"p", "r", "o", "j", "e", "c", "t", "i", "o", "n", "_", "y", "_",
           "c", "o", "o", "r", "d", "i", "n", "a", "t", "e">>,
         <<"p", "r", "o", "j", "e", "c", "t", "i", "o", "n", "_", "y", "_",
           "a", "n", "g", "u", "l", "a", "r", "_",
           "c", "o", "o", "r", "d", "i", "n", "a", "t", "e">>}

\* ' since ' in s
ContainsSince(s) ==
    \E i \in 1..Len(s) :
        /\ i + 6 <= Len(s)
        /\ SubSeq(s, i, i + 6) = <<" ", "s", "i", "n", "c", "e", " ">>

\* VariableBase.is_temporal
IsTemporal(variable) == ContainsSince(Get(variable.attributes, "units", <<>>))

(***************************************************************************)
(* VarInfoBase: construction                                               *)
(***************************************************************************)
\* An assignment that saves the variable and leaves the references alone.
AssignVariableWithoutReferences(info, variable_object) ==
    [references |-> info.references,
     variables |->
         Update(info.variables,
                [p \in {variable_object.full_name_path} |-> variable_object])]

\* VarInfoBase._assign_variable, on the pair (variables, references)
AssignVariable(info, variable_object) ==
    [references |-> info.references \cup GetReferences(variable_object),
     variables |->
         Update(info.variables,
                [p \in {variable_object.full_name_path} |-> variable_object])]

\* The traversal of VarInfoFromDmr._extract_variables (traverse_elements
\* with save_variable): every variable of the dataset, in document order, is
\* built and assigned.
RECURSIVE TraverseElements(_, _)
TraverseElements(elements, info) ==
    IF Len(elements) = 0 THEN info
    ELSE TraverseElements(
             Tail(elements),
             AssignVariable(info,
                            VariableInit(elements[1], elements[1].path)))

\* VarInfoFromDmr._remove_non_variable_references
RemoveNonVariableReferences(info) ==
    [info EXCEPT !.references =
        {reference \in info.references : reference \in DOMAIN info.variables}]

\* VarInfoFromDmr._extract_variables
ExtractVariables(elements) ==
    RemoveNonVariableReferences(
        TraverseElements(elements,
                         [variables |-> EmptyDict, references |-> {}]))

(***************************************************************************)
(* VarInfoBase: queries                                                    *)
(***************************************************************************)
\* What get_variable returns for a path that was never built (None).
NoVariable == [none |-> TRUE]

\* VarInfoBase.get_variable
GetVariable(variable_path) == Get(variables, variable_path, NoVariable)

\* VarInfoBase.get_all_variables
GetAllVariables == DOMAIN variables

\* VarInfoBase._is_spatial_temporal_dimension
IsSpatialTemporalDimension(dimension_path) ==
    LET dimension == GetVariable(dimension_path)
    IN  /\ dimension # NoVariable
        /\ \/ IsGeographic(dimension)
           \/ IsTemporal(dimension)
           \/ IsProjectionXOrY(dimension)

Bnds == <<"_", "b", "n", "d", "s">>

\* A test that looks at the dimensions alone.
IsScienceVariableByDimensionsOnly(variable) ==
    \E dimension \in Range(variable.dimensions) :
        /\ dimension # variable.full_name_path
        /\ ~EndsWith(variable.full_name_path, Bnds)
        /\ IsSpatialTemporalDimension(dimension)

\* VarInfoBase.is_science_variable
IsScienceVariable(variable) ==
    \/ \E dimension \in Range(variable.dimensions) :
           /\ dimension # variable.full_name_path
           /\ ~EndsWith(variable.full_name_path, Bnds)
           /\ IsSpatialTemporalDimension(dimension)
    \/ "coordinates" \in DOMAIN variable.references
    \/ "grid_mapping" \in DOMAIN variable.references

\* An exclusion test that excludes nothing.
VariableIsExcludedNever(variable_name, patterns) == FALSE

\* VarInfoBase.variable_is_excluded, for the pattern that
\* re.compile('|'.join(patterns)) compiles: the joined pattern is '' when
\* there is no pattern (or only the empty one).
VariableIsExcluded(variable_name, patterns) ==
    IF patterns \subseteq {<<>>}
    THEN FALSE
    ELSE ReMatchAny(patterns, variable_name)

\* VarInfoBase.get_science_variables
GetScienceVariables ==
    {variable_path \in DOMAIN variables :
        /\ IsScienceVariable(variables[variable_path])
        /\ ~VariableIsExcluded(variable_path, excluded_science_variables)}
    \ references

\* VarInfoBase.get_metadata_variables
GetMetadataVariables ==
    {variable_path \in DOMAIN variables :
        /\ ~VariableIsExcluded(variable_path, excluded_science_variables)
        /\ ~IsScienceVariable(variables[variable_path])
        /\ ~EndsWith(variable_path, Bnds)}
    \ references

\* The pattern of exclude_fake_dimensions: r'.*/FakeDim\d+'
FakeDimPattern ==
    <<".", "*", "/", "F", "a", "k", "e", "D", "i", "m", "\\d", "+">>

\* A filter that keeps every path.
ExcludeFakeDimensionsKeepsAll(variable_set) == variable_set

\* VarInfoBase.exclude_fake_dimensions
ExcludeFakeDimensions(variable_set) ==
    {variable \in variable_set : ~ReMatch(FakeDimPattern, variable)}

\* The head of get_required_variables: the variables of the granule that
\* match one of the required patterns of the configuration.
CfRequiredVariables ==
    IF required_variables # {}
    THEN {variable \in GetAllVariables :
             ReMatchAny(required_variables, variable)}
    ELSE {}

\* The dimensions of a variable that are variables of the granule, without
\* its CF references.
VariableReferencesDimensionsOnly(variable) ==
    {reference_variable \in Range(variable.dimensions) :
        GetVariable(reference_variable) # NoVariable}

\* Every reference of a variable, a variable of the granule or not.
VariableReferencesUnchecked(variable) == GetReferences(variable)

\* In the loop of get_required_variables: the references of a variable that
\* are variables of the granule.
VariableReferences(variable) ==
    {reference_variable \in GetReferences(variable) :
        GetVariable(reference_variable) # NoVariable}

(***************************************************************************)
(* Inputs of the rule store: the documents a configuration file may hold,  *)
(* and the raw groups and variables that are built against the store.      *)
(***************************************************************************)
SeqsUpTo(set, n) == UNION {[1..k -> set] : k \in 0..n}

\* The Attributes lists of override rules.
OverrideAttributeLists ==
    {<<[Name |-> "coordinates", Value |-> X]>>,
     <<[Name |-> "coordinates", Value |-> Y], [Name |-> "units", Value |-> Y]>>,
     <<[Name |-> "units", Value |-> X]>>}

\* The Applicability objects of override rules: a mission that matches the
\* instance or one that does not, and an optional variable pattern.
Applicabilities ==
    {[Mission |-> m] : m \in {M_F, M_X}}
        \cup {[Mission |-> M_F, Variable_Pattern |-> p] :
              p \in {P_g_all, P_g_v}}

OverrideItems ==
    {[Applicability |-> applicability, Attributes |-> attributes] :
        applicability \in Applicabilities,
        attributes \in OverrideAttributeLists}

SupplementItem ==
    [Applicability |-> [Mission |-> M_F],
     Attributes |-> <<[Name |-> "coordinates", Value |-> S]>>]

ExcludedItem ==
    [Applicability |-> [Mission |-> M_F], Variable_Pattern |-> <<P_g_v>>]

RequiredItem ==
    [Applicability |-> [Mission |-> M_F, ShortNamePath |-> F9],
     Variable_Pattern |-> <<P_g_all>>]

\* Documents with up to n override rules, with or without the other sections.
ConfigDocuments(n) ==
    {[CF_Overrides |-> overrides] : overrides \in SeqsUpTo(OverrideItems, n)}
        \cup {[CF_Overrides |-> overrides,
               CF_Supplements |-> <<SupplementItem>>,
               Excluded_Science_Variables |-> <<ExcludedItem>>,
               Required_Fields |-> <<RequiredItem>>] :
              overrides \in SeqsUpTo(OverrideItems, n)}

\* Paths that are resolved and built against the store.
VariablePaths == {G_v, G_w, H}

GroupPaths == {Root, G}

\* Raw variables: the attributes and dimension names of the granule.
RawVariables ==
    {[attributes |-> EmptyDict, dimensions |-> <<>>],
     [attributes |-> [coordinates |-> R], dimensions |-> <<R>>],
     [attributes |-> [units |-> R], dimensions |-> <<>>],
     [attributes |-> [coordinates |-> R, units |-> R], dimensions |-> <<R>>]}

\* Raw groups: the attributes of the granule and the names of the children.
RawGroups ==
    {[attributes |-> EmptyDict, variables |-> {}],
     [attributes |-> [coordinates |-> R], variables |-> {<<"v">>}],
     [attributes |-> [units |-> R], variables |-> {<<"v">>, <<"w">>}]}

(***************************************************************************)
(* The rule store: loading, resolving, building containers.  The calls do  *)
(* not change the store, so a behaviour loads the store and makes one call.*)
(***************************************************************************)
NoCall ==
    /\ op = "none"
    /\ arg = None
    /\ ret = None

NoLoop ==
    /\ requested_variables = {}
    /\ required = {}
    /\ popped = EmptyDict
    /\ pc = "idle"

NoGraph ==
    /\ dataset = <<>>
    /\ variables = EmptyDict
    /\ references = {}

EmptyStore ==
    /\ cf_overrides = <<>>
    /\ cf_supplements = <<>>
    /\ excluded_science_variables = {}
    /\ required_variables = {}
    /\ global_supplements = EmptyDict
    /\ global_overrides = EmptyDict

InitConfig ==
    /\ short_name = F9
    /\ \/ /\ mission = FS
          /\ config_file = F_cfg
          /\ config \in ConfigDocuments(MaxRules)
       \/ /\ mission = None
          /\ config_file = F_cfg
          /\ config \in ConfigDocuments(1)
       \/ /\ mission \in {FS, None}
          /\ config_file \in {None, F_missing, F_dmr}
          /\ config = EmptyDict
    /\ EmptyStore
    /\ cf_state = "new"
    /\ NoGraph
    /\ NoCall
    /\ NoLoop

\* What CFConfig._read_config_file raises, "" when it does not raise.
ReadConfigFileRaises ==
    IF config_file # None /\ config_file \notin FileSystem
    THEN "MissingConfigurationFileError"
    ELSE IF config_file # None /\ EndsWith(config_file, JsonSuffix)
    THEN ""
    ELSE IF config_file # None
    THEN "InvalidConfigFileFormatError"
    ELSE ""

\* The document CFConfig._read_config_file works on.
LoadedConfig == IF config_file # None THEN config ELSE EmptyDict

\* A construction that reads the configuration file whatever the mission is.
CFConfigInitReadsAlways ==
    /\ cf_state = "new"
    /\ IF ReadConfigFileRaises = ""
       THEN /\ excluded_science_variables' =
                   ApplicablePatterns(
                       Get(LoadedConfig, "Excluded_Science_Variables", <<>>),
                       mission, short_name)
            /\ required_variables' =
                   ApplicablePatterns(
                       Get(LoadedConfig, "Required_Fields", <<>>),
                       mission, short_name)
            /\ global_supplements' =
                   GlobalAttributes(Get(LoadedConfig, "CF_Supplements", <<>>),
                                    EmptyDict, mission, short_name)
            /\ global_overrides' =
                   GlobalAttributes(Get(LoadedConfig, "CF_Overrides", <<>>),
                                    EmptyDict, mission, short_name)
            /\ cf_overrides' =
                   ProcessCfItems(Get(LoadedConfig, "CF_Overrides", <<>>),
                                  <<>>, None, None, mission, short_name)
            /\ cf_supplements' =
                   ProcessCfItems(Get(LoadedConfig, "CF_Supplements", <<>>),
                                  <<>>, None, None, mission, short_name)
            /\ cf_state' = "ready"
       ELSE /\ UNCHANGED <<excluded_science_variables, required_variables,
                           global_supplements, global_overrides,
                           cf_overrides, cf_supplements>>
            /\ cf_state' = ReadConfigFileRaises
    /\ UNCHANGED <<mission, short_name, config_file, config>>
    /\ UNCHANGED <<graphVars, callVars, loopVars>>

\* CFConfig.__init__ with CFConfig._read_config_file
CFConfigInit ==
    /\ cf_state = "new"
    /\ IF mission # None /\ ReadConfigFileRaises = ""
       THEN /\ excluded_science_variables' =
                   ApplicablePatterns(
                       Get(LoadedConfig, "Excluded_Science_Variables", <<>>),
                       mission, short_name)
            /\ required_variables' =
                   ApplicablePatterns(
                       Get(LoadedConfig, "Required_Fields", <<>>),
                       mission, short_name)
            /\ global_supplements' =
                   GlobalAttributes(Get(LoadedConfig, "CF_Supplements", <<>>),
                                    EmptyDict, mission, short_name)
            /\ global_overrides' =
                   GlobalAttributes(Get(LoadedConfig, "CF_Overrides", <<>>),
                                    EmptyDict, mission, short_name)
            /\ cf_overrides' =
                   ProcessCfItems(Get(LoadedConfig, "CF_Overrides", <<>>),
                                  <<>>, None, None, mission, short_name)
            /\ cf_supplements' =
                   ProcessCfItems(Get(LoadedConfig, "CF_Supplements", <<>>),
                                  <<>>, None, None, mission, short_name)
            /\ cf_state' = "ready"
       ELSE /\ UNCHANGED <<excluded_science_variables, required_variables,
                           global_supplements, global_overrides,
                           cf_overrides, cf_supplements>>
            /\ cf_state' = IF mission # None
                           THEN ReadConfigFileRaises
                           ELSE "ready"
    /\ UNCHANGED <<mission, short_name, config_file, config>>
    /\ UNCHANGED <<graphVars, callVars, loopVars>>

\* A call of CFConfig.get_cf_attributes
GetCfAttributesCall ==
    /\ cf_state = "ready"
    /\ op = "none"
    /\ \E variable \in VariablePaths \cup {None} :
           /\ op' = "get_cf_attributes"
           /\ arg' = variable
           /\ ret' = GetCfAttributes(variable)
    /\ UNCHANGED <<cfVars, graphVars, loopVars>>

\* The construction of a variable: VariableBase.__init__
VariableBuild ==
    /\ cf_state = "ready"
    /\ op = "none"
    /\ \E full_name_path \in VariablePaths, variable \in RawVariables :
           /\ op' = "Variable"
           /\ arg' = [variable |-> variable, full_name_path |-> full_name_path]
           /\ ret' = IF VariableInitRaises(variable, full_name_path)
                     THEN [exception |-> "IndexError"]
                     ELSE VariableInit(variable, full_name_path)
    /\ UNCHANGED <<cfVars, graphVars, loopVars>>

\* The construction of a group: GroupBase.__init__
GroupBuild ==
    /\ cf_state = "ready"
    /\ op = "none"
    /\ \E full_name_path \in GroupPaths, group \in RawGroups :
           /\ op' = "Group"
           /\ arg' = [group |-> group, full_name_path |-> full_name_path]
           /\ ret' = GroupInit(group, full_name_path)
    /\ UNCHANGED <<cfVars, graphVars, loopVars>>

NextConfig ==
    \/ CFConfigInit
    \/ GetCfAttributesCall
    \/ VariableBuild
    \/ GroupBuild

SpecConfig == InitConfig /\ [][NextConfig]_vars

(***************************************************************************)
(* Granules: the raw variables a dataset may hold.  Names without a        *)
(* leading '/' are relative to the group of the variable that names them.  *)
(***************************************************************************)
V_s == <<"/", "s">>
V_lat == <<"/", "l", "a", "t">>
V_lat_bnds == <<"/", "l", "a", "t", "_", "b", "n", "d", "s">>
V_fake == <<"/", "F", "a", "k", "e", "D", "i", "m", "0">>
V_g_r == <<"/", "g", "/", "r">>
\* A path that is never a variable.
V_nov == <<"/", "n", "o", "v">>

Lat == <<"l", "a", "t">>
LatBnds == <<"l", "a", "t", "_", "b", "n", "d", "s">>
FakeDim0 == <<"F", "a", "k", "e", "D", "i", "m", "0">>
UpLat == <<".", ".", "/", "l", "a", "t">>

DegreesNorth ==
    <<"d", "e", "g", "r", "e", "e", "s", "_", "n", "o", "r", "t", "h">>
DaysSince == <<"d", " ", "s", "i", "n", "c", "e", " ", "e">>

RawDatasetVariables ==
    {\* /s(lat, FakeDim0), coordinates = "lat /nov"
     [path |-> V_s, dimensions |-> <<Lat, FakeDim0>>,
      attributes |-> [coordinates |-> Lat \o <<" ">> \o V_nov]],
     \* /s, grid_mapping = "g/r"
     [path |-> V_s, dimensions |-> <<>>,
      attributes |-> [grid_mapping |-> <<"g", "/", "r">>]],
     \* /lat(lat), units = "degrees_north", bounds = "lat_bnds"
     [path |-> V_lat, dimensions |-> <<Lat>>,
      attributes |-> [units |-> DegreesNorth, bounds |-> LatBnds]],
     \* /lat(lat), units = "degrees_north"
     [path |-> V_lat, dimensions |-> <<Lat>>,
      attributes |-> [units |-> DegreesNorth]],
     \* /lat, units = "d since e", ancillary_variables = "s"
     [path |-> V_lat, dimensions |-> <<>>,
      attributes |-> [units |-> DaysSince, ancillary_variables |-> <<"s">>]],
     \* /lat_bnds(lat), coordinates = "lat"
     [path |-> V_lat_bnds, dimensions |-> <<Lat>>,
      attributes |-> [coordinates |-> Lat]],
     \* /lat_bnds(lat)
     [path |-> V_lat_bnds, dimensions |-> <<Lat>>, attributes |-> EmptyDict],
     \* /FakeDim0(FakeDim0), coordinates = "/g/r"
     [path |-> V_fake, dimensions |-> <<FakeDim0>>,
      attributes |-> [coordinates |-> V_g_r]],
     \* /g/r(../lat), coordinates = "../lat"
     [path |-> V_g_r, dimensions |-> <<UpLat>>,
      attributes |-> [coordinates |-> UpLat]]}

\* The elements of a set as a sequence, in some fixed order.
RECURSIVE SetToSeq(_)
SetToSeq(set) ==
    IF set = {} THEN <<>>
    ELSE LET element == CHOOSE e \in set : TRUE
         IN  <<element>> \o SetToSeq(set \ {element})

\* Datasets of up to MaxVars variables with distinct paths.
Datasets ==
    {SetToSeq(raw) :
        raw \in {chosen \in SUBSET RawDatasetVariables :
                    /\ Cardinality(chosen) <= MaxVars
                    /\ \A a, b \in chosen : a.path = b.path => a = b}}

\* The sets a caller may hand to get_required_variables: variables of the
\* granule or not, fake dimensions or not.
RequestedSets ==
    {requested \in SUBSET {V_s, V_lat, V_fake, V_nov} :
        Cardinality(requested) <= MaxRequested}

(***************************************************************************)
(* The granule after construction, and its queries.  The queries do not    *)
(* change the granule, so a behaviour makes one query.  Its argument and   *)
(* its return value are sets of paths, empty before the call and until the *)
(* return.                                                                 *)
(***************************************************************************)
InitGraph ==
    /\ mission = FS
    /\ short_name = F9
    /\ config_file = F_cfg
    /\ config = EmptyDict
    /\ cf_overrides = <<>>
    /\ cf_supplements = <<>>
    /\ excluded_science_variables \in {{}, {V_s, V_lat}}
    /\ required_variables \in {{}, {P_g_all}, {P_all}}
    /\ global_supplements = EmptyDict
    /\ global_overrides = EmptyDict
    /\ cf_state = "ready"
    /\ dataset \in Datasets
    /\ \E info \in {ExtractVariables(dataset)} :
           /\ variables = info.variables
           /\ references = info.references
    /\ op = "none"
    /\ arg = {}
    /\ ret = {}
    /\ NoLoop

\* A call of VarInfoBase.get_science_variables
GetScienceVariablesCall ==
    /\ op = "none"
    /\ op' = "get_science_variables"
    /\ arg' = {}
    /\ ret' = GetScienceVariables
    /\ UNCHANGED <<cfVars, graphVars, loopVars>>

\* A call of VarInfoBase.get_metadata_variables
GetMetadataVariablesCall ==
    /\ op = "none"
    /\ op' = "get_metadata_variables"
    /\ arg' = {}
    /\ ret' = GetMetadataVariables
    /\ UNCHANGED <<cfVars, graphVars, loopVars>>

\* A call of VarInfoBase.is_science_variable for a variable of the granule:
\* the return value holds the variable's path when the answer is True and
\* is empty when it is False.
IsScienceVariableCall ==
    /\ op = "none"
    /\ \E path \in GetAllVariables :
           /\ arg' = {path}
           /\ ret' = IF IsScienceVariable(GetVariable(path))
                     THEN {path} ELSE {}
    /\ op' = "is_science_variable"
    /\ UNCHANGED <<cfVars, graphVars, loopVars>>

\* A head of get_required_variables that replaces the caller's set by the
\* required variables of the configuration.
GetRequiredVariablesCallReplacesRequested ==
    /\ op = "none"
    /\ \E requested \in RequestedSets :
           /\ arg' = requested
           /\ requested_variables' = CfRequiredVariables
    /\ op' = "get_required_variables"
    /\ ret' = {}
    /\ required' = {}
    /\ popped' = EmptyDict
    /\ pc' = "loop"
    /\ UNCHANGED <<cfVars, graphVars>>

\* VarInfoBase.get_required_variables, up to its loop: the caller's set is
\* updated with the required variables of the configuration.
GetRequiredVariablesCall ==
    /\ op = "none"
    /\ \E requested \in RequestedSets :
           /\ arg' = requested
           /\ requested_variables' = requested \cup CfRequiredVariables
    /\ op' = "get_required_variables"
    /\ ret' = {}
    /\ required' = {}
    /\ popped' = EmptyDict
    /\ pc' = "loop"
    /\ UNCHANGED <<cfVars, graphVars>>

\* An iteration that enqueues every reference of the popped variable, the
\* ones that are already required included.
GetRequiredVariablesLoopWithoutVisited ==
    /\ pc = "loop"
    /\ Cardinality(requested_variables) > 0
    /\ \E variable_name \in requested_variables :
           LET variable == GetVariable(variable_name)
           IN  /\ required' = required \cup {variable_name}
               /\ popped' =
                      Update(popped,
                             [p \in {variable_name} |->
                                 Get(popped, variable_name, 0) + 1])
               /\ requested_variables' =
                      IF variable # NoVariable
                      THEN (requested_variables \ {variable_name})
                               \cup VariableReferences(variable)
                      ELSE requested_variables \ {variable_name}
    /\ UNCHANGED <<cfVars, graphVars, callVars, pc>>

\* One iteration of the loop of get_required_variables: set.pop() takes an
\* arbitrary element.
GetRequiredVariablesLoop ==
    /\ pc = "loop"
    /\ Cardinality(requested_variables) > 0
    /\ \E variable_name \in requested_variables :
           LET variable == GetVariable(variable_name)
               added == required \cup {variable_name}
           IN  /\ required' = added
               /\ popped' =
                      Update(popped,
                             [p \in {variable_name} |->
                                 Get(popped, variable_name, 0) + 1])
               /\ requested_variables' =
                      IF variable # NoVariable
                      THEN (requested_variables \ {variable_name})
                               \cup (VariableReferences(variable) \ added)
                      ELSE requested_variables \ {variable_name}
    /\ UNCHANGED <<cfVars, graphVars, callVars, pc>>

\* A return that saves the required variables as the referenced paths of
\* the granule.
GetRequiredVariablesReturnSavesRequired ==
    /\ pc = "loop"
    /\ Cardinality(requested_variables) = 0
    /\ ret' = ExcludeFakeDimensions(required)
    /\ pc' = "done"
    /\ references' = required
    /\ UNCHANGED <<cfVars, dataset, variables, op, arg, requested_variables,
                   required, popped>>

\* The return of get_required_variables
GetRequiredVariablesReturn ==
    /\ pc = "loop"
    /\ Cardinality(requested_variables) = 0
    /\ ret' = ExcludeFakeDimensions(required)
    /\ pc' = "done"
    /\ UNCHANGED <<cfVars, graphVars, op, arg, requested_variables, required,
                   popped>>

NextGraph ==
    \/ GetScienceVariablesCall
    \/ GetMetadataVariablesCall
    \/ IsScienceVariableCall
    \/ GetRequiredVariablesCall
    \/ GetRequiredVariablesLoop
    \/ GetRequiredVariablesReturn

SpecGraph == InitGraph /\ [][NextGraph]_vars

\* The loop of get_required_variables is a sequential loop: it goes on while
\* it can.  Every iteration changes popped and the return changes pc.
SpecGraphFair ==
    /\ SpecGraph
    /\ WF_popped(GetRequiredVariablesLoop)
    /\ WF_pc(GetRequiredVariablesReturn)

(***************************************************************************)
(* Properties of the rule store (SpecConfig)                               *)
(***************************************************************************)
\* A call of get_cf_attributes for a path has returned.
ResolvedPath == op = "get_cf_attributes" /\ arg # None

\* A variable has been built (its construction did not raise).
VariableBuilt == op = "Variable" /\ "exception" \notin DOMAIN ret

\* C1: when two override rules both match the resolved path and give
\* different values for one attribute name, the resolved value is the one of
\* the rule whose pattern has more '/', or, with as many '/', the longer
\* pattern, whatever the order in which the rules were registered.
C1_MostSpecificRuleWins ==
    ResolvedPath =>
        \A i, j \in 1..Len(cf_overrides) :
            LET p == cf_overrides[i].pattern
                q == cf_overrides[j].pattern
                a == cf_overrides[i].attributes
                b == cf_overrides[j].attributes
                Beats(x, y) ==
                    \/ CountChar(x, "/") > CountChar(y, "/")
                    \/ /\ CountChar(x, "/") = CountChar(y, "/")
                       /\ Len(x) > Len(y)
            IN  \A name \in DOMAIN a \cap DOMAIN b :
                    (/\ ReMatch(p, arg)
                     /\ ReMatch(q, arg)
                     /\ a[name] # b[name]
                     /\ Beats(q, p)
                     /\ \A k \in 1..Len(cf_overrides) :
                            (/\ ReMatch(cf_overrides[k].pattern, arg)
                             /\ name \in DOMAIN cf_overrides[k].attributes)
                            => ~Beats(cf_overrides[k].pattern, q))
                    => ret.cf_overrides[name] = b[name]

\* C2, as the spec states it: when the raw attributes of a group or variable
\* and its resolved overrides both have the key k, the container holds the
\* raw value for k.
C2_RawValueIsKept ==
    /\ op = "Group" =>
           \A k \in DOMAIN arg.group.attributes
                        \cap DOMAIN ret.metadata_overrides :
               ret.attributes[k] = arg.group.attributes[k]
    /\ VariableBuilt =>
           \A k \in DOMAIN arg.variable.attributes
                        \cap DOMAIN ret.cf_config.cf_overrides :
               ret.attributes[k] = arg.variable.attributes[k]

\* C2, amended: a container holds the override value for every key k of its
\* resolved overrides, whether or not the raw attributes have k, and the raw
\* value for the other raw keys of a group; for a variable whose raw
\* attributes and overrides both have k, the value is the override value,
\* followed by ', ' and the supplement value when a supplement also has k.
C2_OverrideReplacesRawValue ==
    /\ op = "Group" =>
           /\ \A k \in DOMAIN ret.metadata_overrides :
                  /\ k \in DOMAIN ret.attributes
                  /\ ret.attributes[k] = ret.metadata_overrides[k]
           /\ \A k \in DOMAIN arg.group.attributes
                           \ DOMAIN ret.metadata_overrides :
                  ret.attributes[k] = arg.group.attributes[k]
    /\ VariableBuilt =>
           \A k \in DOMAIN arg.variable.attributes
                        \cap DOMAIN ret.cf_config.cf_overrides :
               ret.attributes[k] =
                   IF k \in DOMAIN ret.cf_config.cf_supplements
                   THEN ret.cf_config.cf_overrides[k] \o <<",", " ">>
                            \o ret.cf_config.cf_supplements[k]
                   ELSE ret.cf_config.cf_overrides[k]

\* A group was built whose raw attributes and overrides share a key, with
\* different values.
C2_Witness ==
    /\ op = "Group"
    /\ \E k \in DOMAIN arg.group.attributes
                    \cap DOMAIN ret.metadata_overrides :
           arg.group.attributes[k] # ret.metadata_overrides[k]

\* C3, as the spec states it: for every attribute k of the matching override
\* rules of a built variable, variable.attributes[k] is the override value.
C3_AttributeIsOverrideValue ==
    VariableBuilt =>
        \A k \in DOMAIN ret.cf_config.cf_overrides :
            /\ k \in DOMAIN ret.attributes
            /\ ret.attributes[k] = ret.cf_config.cf_overrides[k]

\* C3, amended: for every attribute k of the matching override rules of a
\* built variable, variable.attributes[k] is the override value when the
\* granule omitted k, and when the granule carried a raw value for k and no
\* matching supplement rule defines k; it is the override value followed by
\* ', ' and the supplement value when the granule carried a raw value for k
\* and a matching supplement rule defines k.
C3_AttributeIsOverrideThenSupplement ==
    VariableBuilt =>
        \A k \in DOMAIN ret.cf_config.cf_overrides :
            LET supplemented ==
                    /\ k \in DOMAIN arg.variable.attributes
                    /\ k \in DOMAIN ret.cf_config.cf_supplements
            IN  /\ k \in DOMAIN ret.attributes
                /\ ~supplemented =>
                       ret.attributes[k] = ret.cf_config.cf_overrides[k]
                /\ supplemented =>
                       ret.attributes[k] =
                           ret.cf_config.cf_overrides[k] \o <<",", " ">>
                               \o ret.cf_config.cf_supplements[k]

\* A variable was built, without supplements, whose overrides define one
\* attribute that the granule omitted and one that it carried with another
\* value.
C3_Witness ==
    /\ VariableBuilt
    /\ ret.cf_config.cf_supplements = EmptyDict
    /\ \E k \in DOMAIN ret.cf_config.cf_overrides :
           k \notin DOMAIN arg.variable.attributes
    /\ \E k \in DOMAIN ret.cf_config.cf_overrides
                    \cap DOMAIN arg.variable.attributes :
           arg.variable.attributes[k] # ret.cf_config.cf_overrides[k]

\* C4: the overrides resolved for a path merge the attributes of every stored
\* override rule whose pattern prefix-matches the path: a name that exactly
\* one matching rule defines is in the result with that rule's value, every
\* entry of the result is an entry of a matching rule, and the result is
\* empty when no rule matches.
C4_MergeOfMatchingRules ==
    ResolvedPath =>
        LET matching ==
                {i \in 1..Len(cf_overrides) :
                    ReMatch(cf_overrides[i].pattern, arg)}
            Defining(name) ==
                {i \in matching : name \in DOMAIN cf_overrides[i].attributes}
        IN  /\ \A i \in matching :
                   \A name \in DOMAIN cf_overrides[i].attributes :
                       Defining(name) = {i} =>
                           /\ name \in DOMAIN ret.cf_overrides
                           /\ ret.cf_overrides[name] =
                                  cf_overrides[i].attributes[name]
            /\ \A name \in DOMAIN ret.cf_overrides :
                   \E i \in Defining(name) :
                       ret.cf_overrides[name] =
                           cf_overrides[i].attributes[name]
            /\ matching = {} => ret.cf_overrides = EmptyDict

\* A path was resolved against a store with a rule that does not match it
\* and two rules that do, each of which alone defines one attribute name.
C4_Witness ==
    /\ ResolvedPath
    /\ \E i \in 1..Len(cf_overrides) : ~ReMatch(cf_overrides[i].pattern, arg)
    /\ \E i, j \in 1..Len(cf_overrides) :
           /\ i # j
           /\ ReMatch(cf_overrides[i].pattern, arg)
           /\ ReMatch(cf_overrides[j].pattern, arg)
           /\ \E name \in DOMAIN cf_overrides[i].attributes :
                  name \notin DOMAIN cf_overrides[j].attributes
           /\ \E name \in DOMAIN cf_overrides[j].attributes :
                  name \notin DOMAIN cf_overrides[i].attributes

(***************************************************************************)
(* Properties of the granule queries (SpecGraph, SpecGraphFair)            *)
(***************************************************************************)
\* get_required_variables has returned.
RequiredReturned == op = "get_required_variables" /\ pc = "done"

\* The path has a '/FakeDim' followed by a digit: what a match of
\* '.*/FakeDim\d+' at the start of the path amounts to.
HasFakeDimension(path) ==
    \E i \in 1..(Len(path) - 8) :
        /\ SubSeq(path, i, i + 7) = <<"/", "F", "a", "k", "e", "D", "i", "m">>
        /\ path[i + 8] \in Digits

\* The seed of get_required_variables: the requested set and the variables of
\* the granule that match a required pattern.
Seed ==
    arg \cup {path \in DOMAIN variables :
                 \E pattern \in required_variables : ReMatch(pattern, path)}

\* The variables of the granule among the dimensions and CF references of
\* the variable at a path.
ExistingReferences(path) ==
    IF path \in DOMAIN variables
    THEN (Range(variables[path].dimensions)
              \cup UNION {variables[path].references[name] :
                          name \in DOMAIN variables[path].references})
             \cap DOMAIN variables
    ELSE {}

\* The paths reached from a set by following references to variables.
RECURSIVE ReferenceClosure(_)
ReferenceClosure(paths) ==
    LET reached == paths \cup UNION {ExistingReferences(path) : path \in paths}
    IN  IF reached = paths THEN paths ELSE ReferenceClosure(reached)

\* The paths reached from a set by following references to variables that are
\* not fake dimensions.
RECURSIVE ReferenceClosureWithoutFake(_)
ReferenceClosureWithoutFake(paths) ==
    LET reached ==
            paths \cup UNION {{reference \in ExistingReferences(path) :
                                  ~HasFakeDimension(reference)} :
                              path \in paths}
    IN  IF reached = paths THEN paths
        ELSE ReferenceClosureWithoutFake(reached)

\* C5, as the spec states it: the variables of the granule that match a
\* required pattern are returned for any requested set; for every variable of
\* the result, its references that are variables and not fake dimensions are
\* in the result; and every path of the result is reached from the seed by
\* following such references.
C5_ClosureOfSeed ==
    RequiredReturned =>
        /\ Seed \ arg \subseteq ret
        /\ \A path \in ret :
               \A reference \in ExistingReferences(path) :
                   ~HasFakeDimension(reference) => reference \in ret
        /\ ret \subseteq ReferenceClosureWithoutFake(Seed)

\* C5, amended: the result is the closure of the seed under the references
\* that are variables of the granule, fake dimensions included, without the
\* paths that match the fake-dimension pattern: a seed path that is a fake
\* dimension is not returned, and a variable that is referenced only through
\* a fake dimension is.
C5_ClosureOfSeedThenFakeFilter ==
    RequiredReturned =>
        ret = {path \in ReferenceClosure(Seed) : ~HasFakeDimension(path)}

\* get_required_variables returned, for a granule with a variable that was
\* not requested and matches a required pattern, a path that is not in the
\* seed: one that was reached by a reference.
C5_Witness ==
    /\ RequiredReturned
    /\ Seed \ arg # {}
    /\ ret \ Seed # {}

\* C6, as the spec states it: every requested path that is a variable of the
\* granule is in the result of get_required_variables.
C6_RequestedVariablesReturned ==
    RequiredReturned => (arg \cap DOMAIN variables) \subseteq ret

\* C6, amended: every requested path that is a variable of the granule and
\* does not match the fake-dimension pattern is in the result of
\* get_required_variables.
C6_RequestedNonFakeVariablesReturned ==
    RequiredReturned =>
        {path \in arg \cap DOMAIN variables : ~HasFakeDimension(path)}
            \subseteq ret

\* get_required_variables returned for a requested set with a variable of the
\* granule that is a fake dimension, one that is not, and a path that is not
\* a variable.
C6_Witness ==
    /\ RequiredReturned
    /\ \E path \in arg \cap DOMAIN variables : HasFakeDimension(path)
    /\ \E path \in arg \cap DOMAIN variables : ~HasFakeDimension(path)

\* C7: no path in the result of get_required_variables matches the
\* fake-dimension pattern '.*/FakeDim\d+', whether it was reached as a
\* reference, matched a required pattern or was requested.
C7_NoFakeDimensionReturned ==
    RequiredReturned =>
        \A path \in ret :
            /\ ~HasFakeDimension(path)
            /\ ~ReMatch(FakeDimPattern, path)

\* get_required_variables returned after it popped a fake dimension that was
\* not requested and matched no required pattern: it was reached as a
\* dimension or reference of another variable.
C7_Witness ==
    /\ RequiredReturned
    /\ \E path \in required \ Seed : HasFakeDimension(path)

\* C8: get_required_variables terminates, for granules whose references form
\* cycles too: once in its loop it reaches its return with an empty work
\* set, and no path is popped from the work set more than once.
C8_TerminatesAndPopsOnce ==
    /\ (pc = "loop") ~> (pc = "done" /\ requested_variables = {})
    /\ [](\A path \in DOMAIN popped : popped[path] <= 1)

\* get_required_variables returned for a granule with a variable that is its
\* own dimension and that is in a cycle of references with another variable,
\* both popped.
C8_Witness ==
    /\ RequiredReturned
    /\ \E path \in DOMAIN popped :
           /\ path \in ExistingReferences(path)
           /\ \E other \in DOMAIN popped \ {path} :
                  /\ other \in ExistingReferences(path)
                  /\ path \in ExistingReferences(other)

\* C9: a variable whose path is matched by an excluded-science-variable
\* pattern is never in get_science_variables(), even if is_science_variable
\* is true for it.
C9_ExcludedNeverScience ==
    op = "get_science_variables" =>
        \A path \in ret :
            \A pattern \in excluded_science_variables :
                ~ReMatch(pattern, path)

\* get_science_variables returned for a granule with a variable that matches
\* an excluded pattern, for which is_science_variable is true and that no
\* variable references.
C9_Witness ==
    /\ op = "get_science_variables"
    /\ \E path \in DOMAIN variables :
           /\ \E pattern \in excluded_science_variables :
                  ReMatch(pattern, path)
           /\ IsScienceVariable(variables[path])
           /\ path \notin references
           /\ path \notin ret

\* C10: every variable that matches no excluded-science pattern, is not
\* referenced by any other variable and whose path does not end in '_bnds'
\* is in get_science_variables() exactly when is_science_variable is true
\* for it, and in get_metadata_variables() exactly when it is false.
C10_SciencePartition ==
    \A path \in DOMAIN variables :
        (/\ \A pattern \in excluded_science_variables :
                ~ReMatch(pattern, path)
         /\ \A other \in DOMAIN variables \ {path} :
                path \notin ExistingReferences(other)
         /\ ~EndsWith(path, Bnds))
        => /\ op = "get_science_variables" =>
                  (path \in ret <=> IsScienceVariable(variables[path]))
           /\ op = "get_metadata_variables" =>
                  (path \in ret <=> ~IsScienceVariable(variables[path]))

\* get_science_variables or get_metadata_variables returned.
ScienceOrMetadataReturned ==
    op \in {"get_science_variables", "get_metadata_variables"}

\* C11: no path returned by get_science_variables() or by
\* get_metadata_variables() is referenced by another variable of the granule,
\* as one of its dimensions or through one of its CF reference attributes.
C11_ReturnedNotReferencedByOther ==
    ScienceOrMetadataReturned =>
        \A path \in ret :
            \A other \in DOMAIN variables \ {path} :
                /\ path \notin ExistingReferences(other)
                /\ path \notin Range(variables[other].dimensions)
                /\ \A name \in DOMAIN variables[other].references :
                       path \notin variables[other].references[name]

\* One of the two calls returned a non-empty set for a granule with a
\* variable that matches no excluded pattern, does not end in '_bnds', is
\* referenced by another variable and is not returned.
C11_Witness ==
    /\ ScienceOrMetadataReturned
    /\ ret # {}
    /\ \E path \in DOMAIN variables \ ret :
           /\ \A pattern \in excluded_science_variables :
                  ~ReMatch(pattern, path)
           /\ ~EndsWith(path, Bnds)
           /\ op = "get_science_variables" <=> IsScienceVariable(variables[path])
           /\ \E other \in DOMAIN variables \ {path} :
                  path \in ExistingReferences(other)

\* C12, as the spec states it: get_science_variables() never returns a path
\* that ends in '_bnds', whatever references and dimensions the variable has.
C12_NoBoundsInScience ==
    op = "get_science_variables" =>
        \A path \in ret : ~EndsWith(path, Bnds)

SpatialTemporalVariable(dimension) ==
    /\ dimension \in DOMAIN variables
    /\ \/ IsGeographic(variables[dimension])
       \/ IsTemporal(variables[dimension])
       \/ IsProjectionXOrY(variables[dimension])

\* The variable has a non-empty set of references for the attribute.
NonEmptyReference(path, name) ==
    /\ name \in DOMAIN variables[path].references
    /\ variables[path].references[name] # {}

V_root == <<"/", "v">>
G_h_v == <<"/", "g", "/", "h", "/", "v">>

QualifiedVariablePaths == {V_root, G_v, G_h_v}

Up == <<".", ".", "/">>

RawReferences ==
    {X, X \o <<":">>, X \o <<":", ":">>,
     <<"/">> \o X, <<"/">> \o X \o <<":">>,
     <<".", "/">> \o X,
     Up \o X, Up \o X \o <<":", ":">>,
     Up \o Up \o X,
     Up \o Up \o Up \o X}

\* The rule stores of SpecVariable: no rule, or one override rule for every
\* variable that replaces the dimensions.
DimensionsOverrides ==
    {<<>>}
        \cup {<<[pattern |-> P_all, attributes |-> [dimensions |-> raw]]>> :
                 raw \in RawReferences}

\* The raw variables of SpecVariable: one reference, as a dimension or as one
\* of the CF reference attributes.
RawReferencingVariables ==
    {[attributes |-> EmptyDict, dimensions |-> <<raw>>] :
        raw \in RawReferences}
        \cup {[attributes |-> [coordinates |-> raw], dimensions |-> <<>>] :
                 raw \in RawReferences}
        \cup {[attributes |-> [grid_mapping |-> raw \o <<" ">> \o X],
               dimensions |-> <<>>] : raw \in RawReferences}

InitVariable ==
    /\ mission = FS
    /\ short_name = F9
    /\ config_file = F_cfg
    /\ config = EmptyDict
    /\ cf_overrides \in DimensionsOverrides
    /\ cf_supplements = <<>>
    /\ excluded_science_variables = {}
    /\ required_variables = {}
    /\ global_supplements = EmptyDict
    /\ global_overrides = EmptyDict
    /\ cf_state = "ready"
    /\ NoGraph
    /\ NoCall
    /\ NoLoop

\* What a call that raised IndexError leaves to its caller.
RaisedIndexError == [exception |-> "IndexError"]

\* A call of VariableBase._qualify_references on a variable at a path, for a
\* list of one raw reference.
QualifyReferencesCall ==
    /\ op = "none"
    /\ \E full_name_path \in QualifiedVariablePaths, raw \in RawReferences :
           LET group_path == ExtractGroupAndName(full_name_path).group_path
               qualified == QualifyReferences(group_path, <<raw>>)
           IN  /\ arg' = [group_path |-> group_path,
                          raw_references |-> <<raw>>]
               /\ ret' = IF IndexError \in Range(qualified)
                         THEN RaisedIndexError
                         ELSE [references |-> qualified]
    /\ op' = "_qualify_references"
    /\ UNCHANGED <<cfVars, graphVars, loopVars>>

\* A second call of VariableBase._qualify_references, on the same variable,
\* for the list that the first call returned.
QualifyReferencesAgain ==
    /\ op = "_qualify_references"
    /\ ret # RaisedIndexError
    /\ LET qualified == QualifyReferences(arg.group_path, ret.references)
       IN  /\ arg' = [group_path |-> arg.group_path,
                      raw_references |-> ret.references]
           /\ ret' = IF IndexError \in Range(qualified)
                     THEN RaisedIndexError
                     ELSE [references |-> qualified]
    /\ op' = "_qualify_references_again"
    /\ UNCHANGED <<cfVars, graphVars, loopVars>>

\* The construction of a variable that holds a raw reference:
\* VariableBase.__init__
VariableBuildWithReferences ==
    /\ op = "none"
    /\ \E full_name_path \in QualifiedVariablePaths :
           \E variable \in RawReferencingVariables :
               /\ arg' = [variable |-> variable,
                          full_name_path |-> full_name_path]
               /\ ret' = IF VariableInitRaises(variable, full_name_path)
                         THEN RaisedIndexError
                         ELSE VariableInit(variable, full_name_path)
    /\ op' = "Variable"
    /\ UNCHANGED <<cfVars, graphVars, loopVars>>

NextVariable ==
    \/ VariableBuildWithReferences
    \/ QualifyReferencesCall
    \/ QualifyReferencesAgain

SpecVariable == InitVariable /\ [][NextVariable]_vars

\* The number of leading '../' of a reference.
RECURSIVE LeadingUps(_)
LeadingUps(reference) ==
    IF StartsWith(reference, Up)
    THEN 1 + LeadingUps(DropFirst(reference, 3))
    ELSE 0

\* The segments of a group path: '/g/h' has the segments g and h.
GroupSegments(group_path) == Tail(SplitSlash(group_path))

\* A group path from its segments.
RECURSIVE FromSegments(_)
FromSegments(segments) ==
    IF segments = <<>> THEN <<>>
    ELSE <<"/">> \o Head(segments) \o FromSegments(Tail(segments))

\* The path the claim gives for a reference, after its trailing ':' were
\* dealt with, and a group path.
QualifiedAsClaimed(group_path, reference) ==
    IF group_path = None
    THEN IF StartsWith(reference, <<"/">>)
         THEN reference ELSE <<"/">> \o reference
    ELSE IF StartsWith(reference, Up)
    THEN LET ups == LeadingUps(reference)
             segments == GroupSegments(group_path)
         IN  FromSegments(SubSeq(segments, 1, Len(segments) - ups))
                 \o <<"/">> \o DropFirst(reference, 3 * ups)
    ELSE IF StartsWith(reference, <<"/">>)
    THEN reference
    ELSE IF StartsWith(reference, <<".", "/">>)
    THEN group_path \o DropFirst(reference, 1)
    ELSE group_path \o <<"/">> \o reference

\* The reference without one trailing ':', if it has one.
StripOneColon(reference) ==
    IF Len(reference) > 0 /\ reference[Len(reference)] = ":"
    THEN SubSeq(reference, 1, Len(reference) - 1)
    ELSE reference

\* The reference without its trailing ':', however many.
RECURSIVE StripEveryColon(_)
StripEveryColon(reference) ==
    IF Len(reference) > 0 /\ reference[Len(reference)] = ":"
    THEN StripEveryColon(SubSeq(reference, 1, Len(reference) - 1))
    ELSE reference

\* A call of _qualify_references for a reference with no more leading '../'
\* than the group path has segments.
QualifiedWithinGroup ==
    /\ op = "_qualify_references"
    /\ \/ arg.group_path = None
       \/ LeadingUps(arg.raw_references[1])
              <= Len(GroupSegments(arg.group_path))

StoredPaths(variable) ==
    Range(variable.dimensions)
        \cup UNION {variable.references[name] :
                    name \in DOMAIN variable.references}

\* The path has a relative fragment: a segment '.' or '..'.
HasRelativeFragment(path) ==
    \E i \in 1..Len(path) :
        /\ path[i] = "."
        /\ i = 1 \/ path[i - 1] \in {"/", "."}
        /\ i < Len(path) /\ path[i + 1] \in {"/", "."}

\* C16, as the spec states it: every path that a constructed variable
\* stores in its references or in its dimensions starts with '/' and has no
\* relative fragment.
C16_StoredPathsAreAbsolute ==
    (op = "Variable" /\ ret # RaisedIndexError) =>
        \A path \in StoredPaths(ret) :
            /\ StartsWith(path, <<"/">>)
            /\ ~HasRelativeFragment(path)

(***************************************************************************)
(* The construction of a granule (SpecConstruct): the steps of             *)
(* VarInfoBase.__init__, in their order.  pc is the step to take next, op  *)
(* is the outcome: "VarInfo" or the name of the exception.                 *)
(***************************************************************************)
ShortNamePath == <<"/", "n">>

\* The documents of the configuration file: the mapping from short name
\* patterns to missions, the places to look for a short name, the rules.
VarInfoDocuments ==
    {[CF_Overrides |-> <<>>],
     [Mission |-> <<[pattern |-> M_F, name |-> FS]>>,
      CF_Supplements |-> <<SupplementItem>>],
     [Mission |-> <<[pattern |-> M_X, name |-> FS],
                    [pattern |-> M_F, name |-> FS]>>,
      CollectionShortNamePath |-> <<ShortNamePath>>,
      Excluded_Science_Variables |-> <<ExcludedItem>>,
      Required_Fields |-> <<RequiredItem>>]}

InitConstruct ==
    /\ mission = None
    /\ short_name \in {None, F9}
    /\ config_file \in {None, F_cfg, F_missing, F_dmr}
    /\ config \in IF config_file = F_cfg THEN VarInfoDocuments
                  ELSE {EmptyDict}
    /\ EmptyStore
    /\ cf_state = "new"
    /\ NoGraph
    /\ op = "none"
    /\ arg = {}
    /\ ret = {}
    /\ requested_variables = {}
    /\ required = {}
    /\ popped = EmptyDict
    /\ pc = "_set_var_info_config"

\* A check of the configuration file that never raises.
SetVarInfoConfigRaisesNever == ""

\* What VarInfoBase._set_var_info_config raises, "" when it does not raise.
SetVarInfoConfigRaises ==
    IF config_file # None /\ config_file \notin FileSystem
    THEN "MissingConfigurationFileError"
    ELSE IF config_file # None /\ EndsWith(config_file, JsonSuffix)
    THEN ""
    ELSE IF config_file # None
    THEN "InvalidConfigFileFormatError"
    ELSE ""

\* VarInfoBase._set_var_info_config: var_info_config is LoadedConfig
SetVarInfoConfig ==
    /\ pc = "_set_var_info_config"
    /\ IF SetVarInfoConfigRaises # ""
       THEN /\ op' = SetVarInfoConfigRaises
            /\ pc' = "raised"
       ELSE /\ op' = op
            /\ pc' = "_read_dataset"
    /\ UNCHANGED <<cfVars, graphVars, arg, ret, requested_variables,
                   required, popped>>

\* VarInfoFromDmr._read_dataset: the granule is any dataset
ReadDataset ==
    /\ pc = "_read_dataset"
    /\ dataset' \in Datasets
    /\ pc' = "_set_mission_and_short_name"
    /\ UNCHANGED <<cfVars, variables, references, callVars,
                   requested_variables, required, popped>>

\* The first name of the mapping whose pattern matches the short name.
RECURSIVE FirstMission(_, _)
FirstMission(missions, name) ==
    IF Len(missions) = 0 THEN None
    ELSE IF ReMatch(missions[1].pattern, name) THEN missions[1].name
    ELSE FirstMission(Tail(missions), name)

\* VarInfoBase._set_mission_and_short_name with
\* VarInfoFromDmr._set_short_name: the granule holds a short name at one of
\* the configured locations, or at none.
SetMissionAndShortName ==
    /\ pc = "_set_mission_and_short_name"
    /\ \E found \in IF Len(Get(LoadedConfig, "CollectionShortNamePath",
                               <<>>)) > 0
                    THEN {None, F9} ELSE {None} :
           LET name == IF short_name = None THEN found ELSE short_name
           IN  /\ short_name' = name
               /\ mission' =
                      IF name # None
                      THEN FirstMission(Get(LoadedConfig, "Mission", <<>>),
                                        name)
                      ELSE mission
    /\ pc' = "_set_cf_config"
    /\ UNCHANGED <<config_file, config, cf_overrides, cf_supplements,
                   excluded_science_variables, required_variables,
                   global_supplements, global_overrides, cf_state>>
    /\ UNCHANGED <<graphVars, callVars, requested_variables, required,
                   popped>>

\* VarInfoBase._set_cf_config: the construction of the rule store
SetCfConfig ==
    /\ pc = "_set_cf_config"
    /\ CFConfigInit

\* VarInfoFromDmr._extract_variables, the last step of the construction
ExtractVariablesStep ==
    /\ pc = "_set_cf_config"
    /\ cf_state = "ready"
    /\ \E info \in {ExtractVariables(dataset)} :
           /\ variables' = info.variables
           /\ references' = info.references
    /\ op' = "VarInfo"
    /\ pc' = "done"
    /\ UNCHANGED <<cfVars, dataset, arg, ret, requested_variables, required,
                   popped>>

\* VarInfoFromNetCDF4._parse_group, for the variables of the root group and
\* of its child groups in the order of the traversal: every variable is
\* built and assigned.
ParseGroup(elements) ==
    TraverseElements(elements, [variables |-> EmptyDict, references |-> {}])

\* VarInfoFromNetCDF4._extract_variables, the last step of the construction
\* from a NetCDF-4 file: _parse_group and nothing after it.
ExtractVariablesFromNetCDF4Step ==
    /\ pc = "_set_cf_config"
    /\ cf_state = "ready"
    /\ \E info \in {ParseGroup(dataset)} :
           /\ variables' = info.variables
           /\ references' = info.references
    /\ op' = "VarInfoFromNetCDF4"
    /\ pc' = "done"
    /\ UNCHANGED <<cfVars, dataset, arg, ret, requested_variables, required,
                   popped>>

NextConstruct ==
    \/ SetVarInfoConfig
    \/ ReadDataset
    \/ SetMissionAndShortName
    \/ SetCfConfig
    \/ ExtractVariablesStep
    \/ ExtractVariablesFromNetCDF4Step

SpecConstruct == InitConstruct /\ [][NextConstruct]_vars

\* No part of the granule exists: no dataset was read, no rule store and no
\* variable was built.
NothingBuilt ==
    /\ dataset = <<>>
    /\ DOMAIN variables = {}
    /\ references = {}
    /\ cf_state = "new"

\* C17: the construction with a configuration file path that does not exist
\* raises MissingConfigurationFileError, and with a path that exists and does
\* not end in '.json' raises InvalidConfigFileFormatError; in both cases no
\* step after _set_var_info_config is taken, so nothing of the granule is
\* built.
C17_ConfigurationErrorsAbort ==
    /\ (config_file # None /\ config_file \notin FileSystem)
           => /\ pc \in {"_set_var_info_config", "raised"}
              /\ pc = "raised" => op = "MissingConfigurationFileError"
              /\ NothingBuilt
    /\ (config_file \in FileSystem /\ ~EndsWith(config_file, JsonSuffix))
           => /\ pc \in {"_set_var_info_config", "raised"}
              /\ pc = "raised" => op = "InvalidConfigFileFormatError"
              /\ NothingBuilt
    /\ op \in {"MissingConfigurationFileError",
               "InvalidConfigFileFormatError"} => NothingBuilt

\* The construction with the path of a file that does not exist has raised.
C17_Witness ==
    /\ config_file = F_missing
    /\ pc = "raised"
    /\ op = "MissingConfigurationFileError"

\* C18: the rule store that is built for the mission None is empty, whatever
\* the configuration file is (missing, not a JSON document, or a document
\* with rules): the construction raises nothing, it holds no excluded and no
\* required pattern and no rule, and every resolution gives empty maps.
C18_NoMissionEmptyStore ==
    (mission = None /\ cf_state # "new") =>
        /\ cf_state = "ready"
        /\ EmptyStore
        /\ (op = "get_cf_attributes" /\ arg # None) =>
               /\ DOMAIN ret.cf_overrides = {}
               /\ DOMAIN ret.cf_supplements = {}
        /\ op = "Variable" =>
               /\ DOMAIN ret.cf_config.cf_overrides = {}
               /\ DOMAIN ret.cf_config.cf_supplements = {}
               /\ ret.attributes = arg.variable.attributes

\* The attributes of a variable were resolved against the store that was
\* built for the mission None and the path of a file that does not exist.
C18_Witness ==
    /\ mission = None
    /\ config_file = F_missing
    /\ op = "get_cf_attributes"
    /\ arg = G_v
    /\ DOMAIN ret.cf_overrides = {}

(***************************************************************************)
(* Loading nested rules (SpecRules): documents whose override rules have   *)
(* nested Applicability_Group rules, loaded for four instances.            *)
(***************************************************************************)
MaxTopRules == 2

XS == <<"X", "S">>
X9 == <<"X", "9">>

\* The Applicability objects of the top-level rules: without a short name
\* and a variable pattern, with both, and for the other mission.
ParentApplicabilities ==
    {[Mission |-> M_F],
     [Mission |-> M_F, ShortNamePath |-> M_F, Variable_Pattern |-> P_g_v],
     [Mission |-> M_X]}

ParentAttributes == <<[Name |-> "coordinates", Value |-> X]>>

ChildAttributes == <<[Name |-> "coordinates", Value |-> Y]>>

\* The nested rules: one that omits Mission and ShortNamePath, one with its
\* own Mission, one with its own ShortNamePath.
ChildItems ==
    {[Applicability |-> EmptyDict, Attributes |-> ChildAttributes],
     [Applicability |-> [Mission |-> M_F, Variable_Pattern |-> P_g_all],
      Attributes |-> ChildAttributes],
     [Applicability |-> [ShortNamePath |-> M_X, Variable_Pattern |-> P_g_all],
      Attributes |-> ChildAttributes]}

\* The top-level rules: with or without attributes of their own, with or
\* without one nested rule.
NestedItems ==
    UNION {{[Applicability |-> applicability],
            [Applicability |-> applicability, Attributes |-> ParentAttributes]}
               \cup {[Applicability |-> applicability,
                      Applicability_Group |-> <<child>>] :
                         child \in ChildItems}
               \cup {[Applicability |-> applicability,
                      Attributes |-> ParentAttributes,
                      Applicability_Group |-> <<child>>] :
                         child \in ChildItems} :
           applicability \in ParentApplicabilities}

OtherExcludedItem ==
    [Applicability |-> [Mission |-> M_X], Variable_Pattern |-> <<P_all>>]

NestedDocuments ==
    {[CF_Overrides |-> overrides,
      Excluded_Science_Variables |-> <<ExcludedItem, OtherExcludedItem>>,
      Required_Fields |-> <<RequiredItem>>] :
        overrides \in SeqsUpTo(NestedItems, MaxTopRules)}

InitRules ==
    /\ mission \in {FS, XS}
    /\ short_name \in {F9, X9}
    /\ config_file = F_cfg
    /\ config \in NestedDocuments
    /\ EmptyStore
    /\ cf_state = "new"
    /\ NoGraph
    /\ NoCall
    /\ NoLoop

NextRules == CFConfigInit

SpecRules == InitRules /\ [][NextRules]_vars

\* A field of an Applicability object, the parent's value when it is omitted.
OwnOrInherited(applicability, field, inherited) ==
    IF field \in DOMAIN applicability THEN applicability[field]
    ELSE inherited

\* A rule of the document with the mission and short name patterns it is
\* tested with, and whether it is nested in a rule that does not apply.
TestedRule(item, parent_mission, parent_short_name, parent_applies) ==
    [mission |->
         OwnOrInherited(item.Applicability, "Mission", parent_mission),
     short_name |->
         OwnOrInherited(item.Applicability, "ShortNamePath",
                        parent_short_name),
     pattern |-> OwnOrInherited(item.Applicability, "Variable_Pattern", P_all),
     item |-> item,
     parent_applies |-> parent_applies]

\* The mission pattern of a tested rule prefix-matches the mission of the
\* instance and its short name pattern, if it has one, the short name.
MatchesInstance(rule) ==
    /\ rule.mission # None
    /\ ReMatch(rule.mission, mission)
    /\ rule.short_name = None \/ ReMatch(rule.short_name, short_name)

\* The rules of a list of top-level rules, each followed by its nested rules.
RECURSIVE FlattenedRules(_)
FlattenedRules(items) ==
    IF Len(items) = 0 THEN <<>>
    ELSE LET parent == TestedRule(items[1], None, None, TRUE)
             group == Get(items[1], "Applicability_Group", <<>>)
         IN  <<parent>>
                 \o [i \in 1..Len(group) |->
                        TestedRule(group[i], parent.mission,
                                   parent.short_name,
                                   MatchesInstance(parent))]
                 \o FlattenedRules(Tail(items))

\* The store holds the retained rules that have attributes, under their
\* variable patterns: a pattern has the attributes of the last of them.
StoreHolds(retained) ==
    LET with_attributes ==
            {i \in retained :
                "Attributes" \in DOMAIN FlattenedRules(config.CF_Overrides)[i].item}
        rule(i) == FlattenedRules(config.CF_Overrides)[i]
    IN  /\ {entry.pattern : entry \in Range(cf_overrides)}
               = {rule(i).pattern : i \in with_attributes}
        /\ \A entry \in Range(cf_overrides) :
               \E i \in with_attributes :
                   /\ rule(i).pattern = entry.pattern
                   /\ entry.attributes =
                          [name \in {"coordinates"} |->
                              rule(i).item.Attributes[1].Value]
                   /\ \A j \in with_attributes :
                          rule(j).pattern = entry.pattern => j <= i

\* The excluded and required patterns are those of the items that match
\* the instance.
PatternSetsHold ==
    /\ excluded_science_variables =
           UNION {Range(item.Variable_Pattern) :
                  item \in {i \in Range(config.Excluded_Science_Variables) :
                               MatchesInstance(TestedRule(i, None, None, TRUE))}}
    /\ required_variables =
           UNION {Range(item.Variable_Pattern) :
                  item \in {i \in Range(config.Required_Fields) :
                               MatchesInstance(TestedRule(i, None, None, TRUE))}}

\* A document with nested rules was loaded.
RulesLoaded == cf_state = "ready" /\ "CF_Overrides" \in DOMAIN config

\* C19, as the spec states it: the store retains exactly the rules whose
\* mission pattern matches the mission and whose short name pattern, if
\* present, matches the short name, a nested rule being tested with its
\* parent's values for the fields it omits; a rule without a variable
\* pattern is stored under '.*'.
C19_RetainsMatchingRules ==
    RulesLoaded =>
        /\ PatternSetsHold
        /\ StoreHolds({i \in DOMAIN FlattenedRules(config.CF_Overrides) :
                          MatchesInstance(
                              FlattenedRules(config.CF_Overrides)[i])})

\* C19, amended: the store retains exactly the rules that match in this
\* way and that are not nested in a rule that does not match.
C19_RetainsMatchingRulesOfMatchingParents ==
    RulesLoaded =>
        /\ PatternSetsHold
        /\ StoreHolds({i \in DOMAIN FlattenedRules(config.CF_Overrides) :
                          LET rule == FlattenedRules(config.CF_Overrides)[i]
                          IN  /\ MatchesInstance(rule)
                              /\ rule.parent_applies})

\* A document was loaded whose first rule does not match the instance and
\* has a nested rule with a Mission of its own that does, and whose second
\* rule matches and has a nested rule that omits Mission and ShortNamePath;
\* the store holds the second nested rule under '.*'.
C19_Witness ==
    /\ cf_state = "ready"
    /\ "CF_Overrides" \in DOMAIN config
    /\ Len(config.CF_Overrides) = 2
    /\ LET rules == FlattenedRules(config.CF_Overrides)
       IN  /\ Len(rules) = 4
           /\ ~MatchesInstance(rules[1])
           /\ "Mission" \in DOMAIN rules[2].item.Applicability
           /\ MatchesInstance(rules[2])
           /\ MatchesInstance(rules[3])
           /\ DOMAIN rules[4].item.Applicability = {}
    /\ \E entry \in Range(cf_overrides) :
           /\ entry.pattern = P_all
           /\ entry.attributes = [coordinates |-> Y]

(***************************************************************************)
(* Queries for variables and dimensions (SpecQueries): the granules of     *)
(* SpecGraph, asked for a variable, for the dimensions of a set of paths   *)
(* and for the required variables of a set of paths.                       *)
(***************************************************************************)
\* The dimensions of the listed variables, whether they are variables of
\* the granule or not.
GetRequiredDimensionsWithoutCheck(paths) ==
    UNION {IF GetVariable(variable) # NoVariable
           THEN Range(GetVariable(variable).dimensions)
           ELSE {} : variable \in paths}

\* VarInfoBase.get_required_dimensions: getattr(..., 'dimensions', []) gives
\* no dimension for a path that is not a variable.
GetRequiredDimensions(paths) ==
    UNION {{dimension \in
                (IF GetVariable(variable) # NoVariable
                 THEN Range(GetVariable(variable).dimensions)
                 ELSE {}) :
                GetVariable(dimension) # NoVariable} : variable \in paths}

\* Whether a method that calls a method of self.get_variable(dimension), for
\* every required dimension, raises AttributeError: it does for None.
DimensionMethodRaises(paths) ==
    \E dimension \in GetRequiredDimensions(paths) :
        GetVariable(dimension) = NoVariable

\* VarInfoBase.get_geographic_spatial_dimensions
GetGeographicSpatialDimensions(paths) ==
    {dimension \in GetRequiredDimensions(paths) :
        IsGeographic(GetVariable(dimension))}

\* VarInfoBase.get_projected_spatial_dimensions
GetProjectedSpatialDimensions(paths) ==
    {dimension \in GetRequiredDimensions(paths) :
        IsProjectionXOrY(GetVariable(dimension))}

\* The geographic dimensions alone, without the projected ones.
GetSpatialDimensionsGeographicOnly(paths) ==
    GetGeographicSpatialDimensions(paths)

\* VarInfoBase.get_spatial_dimensions
GetSpatialDimensions(paths) ==
    GetGeographicSpatialDimensions(paths)
        \cup GetProjectedSpatialDimensions(paths)

\* VarInfoBase.get_temporal_dimensions
GetTemporalDimensions(paths) ==
    {dimension \in GetRequiredDimensions(paths) :
        IsTemporal(GetVariable(dimension))}

\* A call of VarInfoBase.get_variable: the return value holds the path of
\* the variable that is returned and is empty when None is returned.
GetVariableCall ==
    /\ op = "none"
    /\ \E variable_path \in {V_s, V_lat, V_fake, V_nov} :
           /\ arg' = {variable_path}
           /\ ret' = IF GetVariable(variable_path) # NoVariable
                     THEN {GetVariable(variable_path).full_name_path}
                     ELSE {}
    /\ op' = "get_variable"
    /\ UNCHANGED <<cfVars, graphVars, loopVars>>

\* A call of VarInfoBase.get_required_dimensions
GetRequiredDimensionsCall ==
    /\ op = "none"
    /\ \E paths \in RequestedSets :
           /\ arg' = paths
           /\ ret' = GetRequiredDimensions(paths)
    /\ op' = "get_required_dimensions"
    /\ UNCHANGED <<cfVars, graphVars, loopVars>>

\* A call of VarInfoBase.get_spatial_dimensions
GetSpatialDimensionsCall ==
    /\ op = "none"
    /\ \E paths \in RequestedSets :
           /\ arg' = paths
           /\ IF DimensionMethodRaises(paths)
              THEN /\ op' = "AttributeError"
                   /\ ret' = {}
              ELSE /\ op' = "get_spatial_dimensions"
                   /\ ret' = GetSpatialDimensions(paths)
    /\ UNCHANGED <<cfVars, graphVars, loopVars>>

\* A call of VarInfoBase.get_temporal_dimensions
GetTemporalDimensionsCall ==
    /\ op = "none"
    /\ \E paths \in RequestedSets :
           /\ arg' = paths
           /\ IF DimensionMethodRaises(paths)
              THEN /\ op' = "AttributeError"
                   /\ ret' = {}
              ELSE /\ op' = "get_temporal_dimensions"
                   /\ ret' = GetTemporalDimensions(paths)
    /\ UNCHANGED <<cfVars, graphVars, loopVars>>

NextQueries ==
    \/ GetVariableCall
    \/ GetRequiredDimensionsCall
    \/ GetSpatialDimensionsCall
    \/ GetTemporalDimensionsCall
    \/ GetRequiredVariablesCall
    \/ GetRequiredVariablesLoop
    \/ GetRequiredVariablesReturn

SpecQueries == InitGraph /\ [][NextQueries]_vars

\* The variables of the granule that are dimensions of a requested path
\* that is a variable of the granule.
ExistingDimensions ==
    {dimension \in DOMAIN variables :
        \E path \in arg \cap DOMAIN variables :
            dimension \in Range(variables[path].dimensions)}

\* C20: get_variable returns None for a path that is not a variable of the
\* granule; no query raises for requested paths that are not variables or
\* for variables with dimensions and references that are not variables;
\* the dimension queries return dimensions that are variables of requested
\* variables only, and get_required_variables returns nothing but requested
\* paths and variables.
C20_AbsentVariablesAreSkipped ==
    /\ op # "AttributeError"
    /\ op = "get_variable" => ret = arg \cap DOMAIN variables
    /\ op = "get_required_dimensions" => ret = ExistingDimensions
    /\ op \in {"get_spatial_dimensions", "get_temporal_dimensions"}
           => ret \subseteq ExistingDimensions
    /\ RequiredReturned =>
           /\ ret \subseteq arg \cup DOMAIN variables
           /\ ret \subseteq ReferenceClosure(arg \cup Seed)

\* get_spatial_dimensions returned a dimension for a requested set with a
\* path that is not a variable and a variable that has a dimension that is
\* not a variable.
C20_Witness ==
    /\ op = "get_spatial_dimensions"
    /\ ret # {}
    /\ arg \ DOMAIN variables # {}
    /\ \E path \in arg \cap DOMAIN variables :
           Range(variables[path].dimensions) \ DOMAIN variables # {}

\* The dimensions of a variable of the granule, none for any other path.
DimensionsOf(path) ==
    IF path \in DOMAIN variables
    THEN Range(variables[path].dimensions) ELSE {}

\* C21: get_required_dimensions(V) is exactly the set of the paths that are
\* a dimension of a variable of V and a variable of the granule themselves:
\* a dimension that is no variable is dropped, and a variable without
\* dimensions or a path that is no variable contributes nothing.
C21_RequiredDimensionsAreExistingVariables ==
    op = "get_required_dimensions" =>
        /\ \A dimension \in ret :
               /\ dimension \in DOMAIN variables
               /\ \E path \in arg : dimension \in DimensionsOf(path)
        /\ \A path \in arg :
               DimensionsOf(path) \cap DOMAIN variables \subseteq ret
        /\ (\A path \in arg : path \in DOMAIN variables
                                  => variables[path].dimensions = <<>>)
               => ret = {}

\* get_required_dimensions returned a dimension of a requested variable and
\* dropped another of its dimensions, which is no variable; the requested
\* set also holds a path that is no variable.
C21_Witness ==
    /\ op = "get_required_dimensions"
    /\ arg \ DOMAIN variables # {}
    /\ \E path \in arg :
           /\ DimensionsOf(path) \cap ret # {}
           /\ DimensionsOf(path) \ DOMAIN variables # {}
           /\ DimensionsOf(path) \ ret # {}

(***************************************************************************)
(* Gridded granules (SpecGrid): variables on geographic, projected and     *)
(* temporal dimensions, and every query of VarInfoBase on them.            *)
(***************************************************************************)
MaxGridVars == 6

V_w == <<"/", "w">>
V_lon == <<"/", "l", "o", "n">>
V_x == <<"/", "x">>
V_t == <<"/", "t">>
V_u == <<"/", "u">>

Lon == <<"l", "o", "n">>
DegreesEast == <<"d", "e", "g", "r", "e", "e", "s", "_", "e", "a", "s", "t">>
ProjectionXCoordinate ==
    <<"p", "r", "o", "j", "e", "c", "t", "i", "o", "n", "_", "x", "_",
      "c", "o", "o", "r", "d", "i", "n", "a", "t", "e">>

RawGridVariables ==
    {\* /s(t, lat, lon)
     [path |-> V_s, dimensions |-> <<<<"t">>, Lat, Lon>>,
      attributes |-> EmptyDict],
     \* /s(x, lat)
     [path |-> V_s, dimensions |-> <<<<"x">>, Lat>>, attributes |-> EmptyDict],
     \* /s
     [path |-> V_s, dimensions |-> <<>>, attributes |-> EmptyDict],
     \* /w(lon, lat)
     [path |-> V_w, dimensions |-> <<Lon, Lat>>, attributes |-> EmptyDict],
     \* /u(lat, lon), units = "X"
     [path |-> V_u, dimensions |-> <<Lat, Lon>>, attributes |-> [units |-> X]],
     \* /lat(lat), units = "degrees_north"
     [path |-> V_lat, dimensions |-> <<Lat>>,
      attributes |-> [units |-> DegreesNorth]],
     \* /lon(lon), units = "degrees_east"
     [path |-> V_lon, dimensions |-> <<Lon>>,
      attributes |-> [units |-> DegreesEast]],
     \* /lon(lon)
     [path |-> V_lon, dimensions |-> <<Lon>>, attributes |-> EmptyDict],
     \* /x(x), standard_name = "projection_x_coordinate"
     [path |-> V_x, dimensions |-> <<<<"x">>>>,
      attributes |-> [standard_name |-> ProjectionXCoordinate]],
     \* /t(t), units = "d since e"
     [path |-> V_t, dimensions |-> <<<<"t">>>>,
      attributes |-> [units |-> DaysSince]]}

\* Granules of up to MaxGridVars variables with distinct paths.
GridDatasets ==
    {SetToSeq(raw) :
        raw \in {chosen \in SUBSET RawGridVariables :
                    /\ Cardinality(chosen) <= MaxGridVars
                    /\ \A a, b \in chosen : a.path = b.path => a = b}}

\* The sets of dimensions a caller may hand to get_variables_with_dimensions.
DimensionSets == {{}, {V_lat}, {V_lat, V_lon}, {V_t, V_nov}}

InitGrid ==
    /\ mission = FS
    /\ short_name = F9
    /\ config_file = F_cfg
    /\ config = EmptyDict
    /\ EmptyStore
    /\ cf_state = "ready"
    /\ dataset \in GridDatasets
    /\ \E info \in {ExtractVariables(dataset)} :
           /\ variables = info.variables
           /\ references = info.references
    /\ op = "none"
    /\ arg = {}
    /\ ret = {}
    /\ NoLoop

\* VarInfoBase.get_variables_with_dimensions
GetVariablesWithDimensions(dimensions) ==
    {variable \in GetAllVariables :
        dimensions \subseteq Range(GetVariable(variable).dimensions)}

\* VarInfoBase.group_variables_by_dimensions: the items of the dictionary
\* it returns, a tuple of dimensions with the set of the variables that have
\* exactly this tuple.
GroupVariablesByDimensions ==
    {[dimensions |-> variable_dimensions,
      variables |-> {variable_name \in GetAllVariables :
                        GetVariable(variable_name).dimensions
                            = variable_dimensions}] :
        variable_dimensions \in
            {GetVariable(variable_name).dimensions :
                variable_name \in GetAllVariables}}

\* A filter that keeps every dimension of the tuple.
HorizontalDimensionsKeepsAll(grid_dimensions) == grid_dimensions

\* In group_variables_by_horizontal_dimensions: the dimensions of a tuple
\* that are geographic or projected variables of the granule, in order.
HorizontalDimensions(grid_dimensions) ==
    LET IsHorizontal(dimension) ==
            /\ GetVariable(dimension) # NoVariable
            /\ \/ IsGeographic(GetVariable(dimension))
               \/ IsProjectionXOrY(GetVariable(dimension))
    IN  SelectSeq(grid_dimensions, IsHorizontal)

\* VarInfoBase.group_variables_by_horizontal_dimensions: the groups of
\* group_variables_by_dimensions with the same horizontal dimensions are
\* merged.
GroupVariablesByHorizontalDimensions ==
    LET grid_groups == GroupVariablesByDimensions
    IN  {[dimensions |-> horizontal_dimensions,
          variables |->
              UNION {group.variables :
                        group \in {g \in grid_groups :
                                      HorizontalDimensions(g.dimensions)
                                          = horizontal_dimensions}}] :
            horizontal_dimensions \in
                {HorizontalDimensions(g.dimensions) : g \in grid_groups}}

\* A call of VarInfoBase.get_all_variables
GetAllVariablesCall ==
    /\ op = "none"
    /\ op' = "get_all_variables"
    /\ arg' = {}
    /\ ret' = GetAllVariables
    /\ UNCHANGED <<cfVars, graphVars, loopVars>>

\* A call of VarInfoBase.get_variables_with_dimensions
GetVariablesWithDimensionsCall ==
    /\ op = "none"
    /\ op' = "get_variables_with_dimensions"
    /\ \E dimensions \in DimensionSets :
           /\ arg' = dimensions
           /\ ret' = GetVariablesWithDimensions(dimensions)
    /\ UNCHANGED <<cfVars, graphVars, loopVars>>

\* A call of VarInfoBase.group_variables_by_dimensions
GroupVariablesByDimensionsCall ==
    /\ op = "none"
    /\ op' = "group_variables_by_dimensions"
    /\ arg' = {}
    /\ ret' = GroupVariablesByDimensions
    /\ UNCHANGED <<cfVars, graphVars, loopVars>>

\* A call of VarInfoBase.group_variables_by_horizontal_dimensions
GroupVariablesByHorizontalDimensionsCall ==
    /\ op = "none"
    /\ op' = "group_variables_by_horizontal_dimensions"
    /\ arg' = {}
    /\ ret' = GroupVariablesByHorizontalDimensions
    /\ UNCHANGED <<cfVars, graphVars, loopVars>>

\* The caller has the result of a query and goes on to its next query: the
\* locals of the query are gone.
CallerContinues ==
    /\ op # "none"
    /\ pc \in {"idle", "done"}
    /\ op' = "none"
    /\ arg' = {}
    /\ ret' = {}
    /\ requested_variables' = {}
    /\ required' = {}
    /\ popped' = EmptyDict
    /\ pc' = "idle"
    /\ UNCHANGED <<cfVars, graphVars>>

NextGrid ==
    \/ GetVariableCall
    \/ GetAllVariablesCall
    \/ GetScienceVariablesCall
    \/ GetMetadataVariablesCall
    \/ GetRequiredDimensionsCall
    \/ GetSpatialDimensionsCall
    \/ GetTemporalDimensionsCall
    \/ GetVariablesWithDimensionsCall
    \/ GroupVariablesByDimensionsCall
    \/ GroupVariablesByHorizontalDimensionsCall
    \/ GetRequiredVariablesCall
    \/ GetRequiredVariablesLoop
    \/ GetRequiredVariablesReturn
    \/ CallerContinues

SpecGrid == InitGrid /\ [][NextGrid]_vars

\* C22: get_spatial_dimensions(V) is exactly the set of the required
\* dimensions of V that are geographic or projected variables, and
\* get_temporal_dimensions(V) the set of those that are temporal; a
\* dimension variable without units and standard_name is in neither.
C22_SpatialAndTemporalDimensions ==
    /\ op = "get_spatial_dimensions" =>
           ret = {dimension \in ExistingDimensions :
                     \/ IsLatitude(variables[dimension])
                     \/ IsLongitude(variables[dimension])
                     \/ IsProjectionXOrY(variables[dimension])}
    /\ op = "get_temporal_dimensions" =>
           ret = {dimension \in ExistingDimensions :
                     IsTemporal(variables[dimension])}
    /\ op \in {"get_spatial_dimensions", "get_temporal_dimensions"} =>
           \A dimension \in ExistingDimensions :
               DOMAIN variables[dimension].attributes = {}
                   => dimension \notin ret

\* get_spatial_dimensions returned /lat, which has units degrees_north, and
\* not /lon, a dimension of the same requested variable that has no units.
C22_Witness ==
    /\ op = "get_spatial_dimensions"
    /\ V_s \in arg
    /\ V_lat \in ret
    /\ V_lon \in ExistingDimensions \ ret
    /\ V_t \in ExistingDimensions \ ret

\* The dimensions of a tuple that are geographic or projected variables of
\* the granule, in the order of the tuple.
RECURSIVE HorizontalOnly(_)
HorizontalOnly(dimensions) ==
    IF dimensions = <<>> THEN <<>>
    ELSE LET first == Head(dimensions)
             kept ==
                 /\ first \in DOMAIN variables
                 /\ \/ IsGeographic(variables[first])
                    \/ IsProjectionXOrY(variables[first])
         IN  (IF kept THEN <<first>> ELSE <<>>)
                 \o HorizontalOnly(Tail(dimensions))

\* The groups of the returned dictionary that hold a variable.
GroupsOf(path) == {group \in ret : path \in group.variables}

\* C23: in the result of group_variables_by_horizontal_dimensions every
\* variable of the granule is in exactly one group, whose key is the tuple
\* of the variable's dimensions that are geographic or projected variables,
\* in their order; no key occurs twice and no group holds anything but
\* variables.  So the order of the horizontal dimensions tells groups apart,
\* other dimensions do not, and a variable without horizontal dimensions is
\* in the group of the empty tuple.
C23_GroupedByHorizontalDimensions ==
    op = "group_variables_by_horizontal_dimensions" =>
        /\ \A path \in DOMAIN variables :
               /\ Cardinality(GroupsOf(path)) = 1
               /\ \A group \in GroupsOf(path) :
                      group.dimensions
                          = HorizontalOnly(variables[path].dimensions)
        /\ \A group \in ret :
               /\ group.variables # {}
               /\ group.variables \subseteq DOMAIN variables
        /\ \A g, h \in ret : g.dimensions = h.dimensions => g = h

\* The result holds the group (lat, lon) with two variables of different
\* dimensions, the group (lon, lat) and the group of the empty tuple.
C23_Witness ==
    /\ op = "group_variables_by_horizontal_dimensions"
    /\ \E g \in ret :
           /\ g.dimensions = <<V_lat, V_lon>>
           /\ \E a, b \in g.variables :
                  variables[a].dimensions # variables[b].dimensions
    /\ \E g \in ret : g.dimensions = <<V_lon, V_lat>>
    /\ \E g \in ret : g.dimensions = <<>>

ReferencedPaths ==
    UNION {Range(variables[path].dimensions)
               \cup UNION {variables[path].references[name] :
                              name \in DOMAIN variables[path].references} :
           path \in DOMAIN variables}

\* C25: after the construction of a granule, from a .dmr or from a NetCDF-4
\* file, the set of referenced paths is exactly the set of the variables of
\* the granule that a variable names as a dimension or in a CF reference
\* attribute: paths that are not variables are removed, and a variable that
\* is parsed after the variable that names it is kept.
C25_ReferencesAreReferencedVariables ==
    (pc = "done" /\ op \in {"VarInfo", "VarInfoFromNetCDF4"}) =>
        references = ReferencedPaths \cap DOMAIN variables

(***************************************************************************)
(* exclude_fake_dimensions on sets of paths (SpecFake): a static method,   *)
(* applied to a set that the caller chose.                                 *)
(***************************************************************************)
MaxPaths == 3

FakeDim == <<"F", "a", "k", "e", "D", "i", "m">>

\* /s, /FakeDim0, /FakeDim12, /g/FakeDim0, /FakeDim, /aFakeDim0,
\* /FakeDim0_e and /FakeDim0/c
FakePaths ==
    {V_s,
     <<"/">> \o FakeDim \o <<"0">>,
     <<"/">> \o FakeDim \o <<"1", "2">>,
     <<"/", "g", "/">> \o FakeDim \o <<"0">>,
     <<"/">> \o FakeDim,
     <<"/", "a">> \o FakeDim \o <<"0">>,
     <<"/">> \o FakeDim \o <<"0", "_", "e">>,
     <<"/">> \o FakeDim \o <<"0", "/", "c">>}

\* The sets of up to MaxPaths paths a caller may hand over.
FakePathSets ==
    {variable_set \in SUBSET FakePaths : Cardinality(variable_set) <= MaxPaths}

InitFake ==
    /\ mission = None
    /\ short_name = None
    /\ config_file = None
    /\ config = EmptyDict
    /\ EmptyStore
    /\ cf_state = "new"
    /\ NoGraph
    /\ op = "none"
    /\ arg \in FakePathSets
    /\ ret = {}
    /\ NoLoop

\* A call of VarInfoBase.exclude_fake_dimensions with the chosen set
ExcludeFakeDimensionsCall ==
    /\ op = "none"
    /\ op' = "exclude_fake_dimensions"
    /\ ret' = ExcludeFakeDimensions(arg)
    /\ UNCHANGED <<cfVars, graphVars, arg, loopVars>>

NextFake == ExcludeFakeDimensionsCall

SpecFake == InitFake /\ [][NextFake]_vars

\* The part of a path after its last '/'.
RECURSIVE LastSegment(_)
LastSegment(path) ==
    IF \E i \in 1..Len(path) : path[i] = "/"
    THEN LastSegment(Tail(path))
    ELSE path

\* The name is 'FakeDim' followed by one or more digits and nothing else.
IsFakeDimName(name) ==
    /\ Len(name) > Len(FakeDim)
    /\ SubSeq(name, 1, Len(FakeDim)) = FakeDim
    /\ \A i \in (Len(FakeDim) + 1)..Len(name) : name[i] \in Digits

\* C26: exclude_fake_dimensions removes from a set exactly the paths whose
\* last segment is 'FakeDim' followed by digits: a path whose last segment
\* only starts with such a name, or that has such a name as a group, is
\* kept.
C26_OnlyFakeDimNamesRemoved ==
    op = "exclude_fake_dimensions" =>
        ret = {path \in arg : ~IsFakeDimName(LastSegment(path))}

\* C27: get_required_variables leaves the set of its caller alone: when the
\* call has returned, requested_variables, which is the caller's set object,
\* holds the paths it held at the call.
C27_CallerSetUnchanged ==
    RequiredReturned => requested_variables = arg

\* C28: every path that get_required_variables(S) returns is a variable of
\* the granule: a path of S that is no variable and a reference to a path
\* that is no variable are not returned.
C28_RequiredAreVariables ==
    RequiredReturned => ret \subseteq DOMAIN variables

\* C28, as the code has it: every path that get_required_variables(S)
\* returns is a path of S or a variable of the granule; a path of S that is
\* no variable is returned unless it is named like a fake dimension, and a
\* reference to a path that is no variable is returned only if S holds the
\* path.
C28_RequiredAreRequestedOrVariables ==
    RequiredReturned =>
        /\ ret \ arg \subseteq DOMAIN variables
        /\ \A path \in arg \ DOMAIN variables :
               path \in ret <=> ~HasFakeDimension(path)
        /\ \A path \in ret \cap DOMAIN variables :
               \A reference \in GetReferences(variables[path]) :
                   (reference \in ret /\ reference \notin DOMAIN variables)
                       => reference \in arg

\* get_required_variables returned a requested path that is no variable,
\* and a variable without one of its references, which is no variable.
C28_Witness ==
    /\ RequiredReturned
    /\ ret \ DOMAIN variables # {}
    /\ \E path \in ret \cap DOMAIN variables :
           GetReferences(variables[path]) \ (DOMAIN variables \cup ret) # {}

(***************************************************************************)
(* Rules nested in rules nested in rules (SpecChains): override rules with *)
(* up to two levels of Applicability_Group below them, loaded for the      *)
(* instance (FS, F9) and resolved for the variable paths.                  *)
(***************************************************************************)
BothAttributes ==
    <<[Name |-> "coordinates", Value |-> Y], [Name |-> "units", Value |-> Y]>>

UnitsAttributes == <<[Name |-> "units", Value |-> X]>>

\* The rules of the lowest level: with a Mission and a variable pattern of
\* its own, and without both.
OwnGrandchild ==
    [Applicability |-> [Mission |-> M_F, Variable_Pattern |-> P_g_v],
     Attributes |-> UnitsAttributes]

InheritingGrandchild ==
    [Applicability |-> EmptyDict, Attributes |-> UnitsAttributes]

\* The rules of the middle level: without Mission and ShortNamePath, with a
\* Mission that matches the instance, with one that does not, and with a
\* ShortNamePath that matches or not; with or without a nested rule.
MiddleItems ==
    {[Applicability |-> EmptyDict, Attributes |-> ParentAttributes],
     [Applicability |-> EmptyDict, Attributes |-> ParentAttributes,
      Applicability_Group |-> <<InheritingGrandchild>>],
     [Applicability |-> [Mission |-> M_F], Attributes |-> ParentAttributes,
      Applicability_Group |-> <<OwnGrandchild>>],
     [Applicability |-> [Mission |-> M_X], Attributes |-> ParentAttributes,
      Applicability_Group |-> <<OwnGrandchild>>],
     [Applicability |-> [ShortNamePath |-> M_F, Variable_Pattern |-> P_g_all],
      Attributes |-> ParentAttributes,
      Applicability_Group |-> <<InheritingGrandchild>>],
     [Applicability |-> [ShortNamePath |-> M_X],
      Attributes |-> ParentAttributes,
      Applicability_Group |-> <<OwnGrandchild>>]}

\* The top-level rules: for the mission of the instance or for the other
\* one, without a variable pattern, with or without a nested rule.
ChainItems ==
    UNION {{[Applicability |-> applicability, Attributes |-> BothAttributes]}
               \cup {[Applicability |-> applicability,
                      Attributes |-> BothAttributes,
                      Applicability_Group |-> <<middle>>] :
                         middle \in MiddleItems} :
           applicability \in {[Mission |-> M_F], [Mission |-> M_X]}}

ChainDocuments ==
    {[CF_Overrides |-> overrides] :
        overrides \in SeqsUpTo(ChainItems, MaxTopRules)}

InitChains ==
    /\ mission = FS
    /\ short_name = F9
    /\ config_file = F_cfg
    /\ config \in ChainDocuments
    /\ EmptyStore
    /\ cf_state = "new"
    /\ NoGraph
    /\ NoCall
    /\ NoLoop

NextChains ==
    \/ CFConfigInit
    \/ GetCfAttributesCall

SpecChains == InitChains /\ [][NextChains]_vars

\* The rules of a list of rules, each followed by the rules nested in it,
\* with the patterns they are tested with and whether every rule they are
\* nested in matches the instance.
RECURSIVE RuleTree(_, _, _, _)
RuleTree(items, parent_mission, parent_short_name, ancestors_apply) ==
    IF Len(items) = 0 THEN <<>>
    ELSE LET rule == TestedRule(items[1], parent_mission, parent_short_name,
                                ancestors_apply)
         IN  <<rule>>
                 \o RuleTree(Get(items[1], "Applicability_Group", <<>>),
                             rule.mission, rule.short_name,
                             ancestors_apply /\ MatchesInstance(rule))
                 \o RuleTree(Tail(items), parent_mission, parent_short_name,
                             ancestors_apply)

OverrideRules == RuleTree(Get(config, "CF_Overrides", <<>>), None, None, TRUE)

\* The positions of the rules of a rule tree that are loaded: they match
\* the instance, as does every rule they are nested in, and have attributes.
LoadedOf(rules) ==
    {i \in DOMAIN rules :
        /\ MatchesInstance(rules[i])
        /\ rules[i].parent_applies
        /\ "Attributes" \in DOMAIN rules[i].item}

\* The loaded rules that no later loaded rule with the same pattern follows.
LastLoadedOf(rules, loaded) ==
    {i \in loaded :
        \A j \in loaded : rules[j].pattern = rules[i].pattern => j <= i}

LoadedRules == LoadedOf(OverrideRules)

LastLoadedRules == LastLoadedOf(OverrideRules, LoadedRules)

\* The attribute map of a rule: its names with their values.
AttributeMap(item) ==
    [name \in {attribute.Name : attribute \in Range(item.Attributes)} |->
        (CHOOSE attribute \in Range(item.Attributes) :
            attribute.Name = name).Value]

\* C29: the store holds one attribute map per variable pattern, the whole
\* map of the last loaded rule with this pattern ('.*' for a rule without a
\* variable pattern), at whatever level the rules are nested; so a resolved
\* attribute name is a name of the last loaded rule of a matching pattern,
\* and a name that only an earlier rule of the pattern has is not resolved.
C29_LaterRuleReplacesWholeMap ==
    cf_state = "ready" =>
        LET rules == OverrideRules
            loaded == LoadedOf(rules)
            last == LastLoadedOf(rules, loaded)
        IN  /\ \A i, j \in DOMAIN cf_overrides :
                   cf_overrides[i].pattern = cf_overrides[j].pattern => i = j
            /\ {entry.pattern : entry \in Range(cf_overrides)}
                   = {rules[i].pattern : i \in loaded}
            /\ \A entry \in Range(cf_overrides) :
                   \A i \in last :
                       rules[i].pattern = entry.pattern =>
                           entry.attributes = AttributeMap(rules[i].item)
            /\ (op = "get_cf_attributes" /\ arg # None) =>
                   \A name \in DOMAIN ret.cf_overrides :
                       \E i \in last :
                           /\ ReMatch(rules[i].pattern, arg)
                           /\ name \in DOMAIN AttributeMap(rules[i].item)

\* Two loaded rules have no variable pattern, the earlier one has 'units'
\* and the last one has not, and the overrides resolved for /g/v have no
\* 'units'.
C29_Witness ==
    /\ cf_state = "ready"
    /\ op = "get_cf_attributes"
    /\ arg = G_v
    /\ \E i \in LoadedRules, j \in LastLoadedRules :
           /\ i < j
           /\ OverrideRules[i].pattern = P_all
           /\ OverrideRules[j].pattern = P_all
           /\ "Variable_Pattern" \notin DOMAIN OverrideRules[i].item.Applicability
           /\ "Variable_Pattern" \notin DOMAIN OverrideRules[j].item.Applicability
           /\ "units" \in DOMAIN AttributeMap(OverrideRules[i].item)
           /\ "units" \notin DOMAIN AttributeMap(OverrideRules[j].item)
    /\ "coordinates" \in DOMAIN ret.cf_overrides
    /\ "units" \notin DOMAIN ret.cf_overrides

\* C30: every override rule of the store is a rule of the document that
\* matches the instance and is nested only in rules that match it: a rule
\* with a matching Mission or ShortNamePath of its own below a rule that
\* does not match is not loaded, and neither are the rules nested in it.
C30_LoadedOnlyBelowApplicableAncestors ==
    cf_state = "ready" =>
        LET rules == OverrideRules
            loaded == LoadedOf(rules)
        IN  /\ \A entry \in Range(cf_overrides) :
                   \E i \in loaded :
                       /\ rules[i].pattern = entry.pattern
                       /\ AttributeMap(rules[i].item) = entry.attributes
            /\ \A i \in DOMAIN rules :
                   (\A j \in loaded : rules[j].pattern # rules[i].pattern)
                       => \A entry \in Range(cf_overrides) :
                              entry.pattern # rules[i].pattern

\* The one top-level rule of the document does not match the instance; the
\* rule nested in it has a Mission of its own that matches, and so has the
\* rule nested in that one, with the pattern /g/v: the store is empty.
C30_Witness ==
    /\ cf_state = "ready"
    /\ Len(OverrideRules) = 3
    /\ Len(config.CF_Overrides) = 1
    /\ ~MatchesInstance(OverrideRules[1])
    /\ "Mission" \in DOMAIN OverrideRules[2].item.Applicability
    /\ MatchesInstance(OverrideRules[2])
    /\ "Mission" \in DOMAIN OverrideRules[3].item.Applicability
    /\ MatchesInstance(OverrideRules[3])
    /\ cf_overrides = <<>>

====
